---- MODULE Spec2Model ----
(***************************************************************************)
(* The farm mini-app: the game-state reducer (gameLogic), the controller   *)
(* handlers of App.tsx that dispatch into it, and the controller's         *)
(* reconciliation with the remote store (dirty flag, debounced and         *)
(* periodic writes, pulls).                                                *)
(***************************************************************************)
EXTENDS Integers, Sequences, FiniteSets, TLC

VARIABLES
  state,          \* useState<GameState>                       (App.tsx:343)
  latestStateRef, \* latestStateRef.current                    (App.tsx:365)
  dirty,          \* dirtyRef.current                          (App.tsx:369)
  syncTimeout,    \* a debounce timer is armed (syncTimeoutRef) (App.tsx:372)
  now,            \* Date.now()
  net,            \* requests and responses in flight (fetch promises)
  server,         \* the snapshot held by the remote store
  localSeq        \* history: number of local mutations the local state includes

vars == <<state, latestStateRef, dirty, syncTimeout, now, net, server, localSeq>>

-----------------------------------------------------------------------------
(* Bounds of the model *)

\* local mutations explored per behaviour of the game
MaxSteps == 3
\* local mutations explored per behaviour of the sync protocol
MaxSyncSteps == 2
\* clock advances explored per behaviour, in units of TickMs
MaxTicks == 1
\* gem purchases (upgrades, unlocks) explored per behaviour of the progression
MaxProgressSteps == 5
\* moves of the player between loads and pulls of stored values
MaxSchemaSteps == 2

\* moves of the player around a daily claim
MaxDailySteps == 2

\* slot actions explored per behaviour of the frame runs
MaxFrameSteps == 3

\* boost requests of the player
MaxBoostSteps == 2

\* moves of the player at the market
MaxMarketSteps == 3

\* fetches in flight at once
MaxInFlight == 2
\* local mutations explored per behaviour of the pulls
MaxPullSteps == 1

-----------------------------------------------------------------------------
(* JavaScript values *)

\* null (a slot's timer when idle)
null == [isNull |-> TRUE]

\* obj.f ?? d  for an optional field
Get(obj, f, d) == IF f \in DOMAIN obj THEN obj[f] ELSE d

\* Math.pow(2, n)
RECURSIVE Pow2(_)
Pow2(n) == IF n <= 0 THEN 1 ELSE 2 * Pow2(n - 1)

\* Math.ceil(a / b) for b > 0
CeilDiv(a, b) == -((-a) \div b)

\* Math.max
Max(a, b) == IF a >= b THEN a ELSE b

\* arr.find(p): index of the first element with the given id, 0 if none
RECURSIVE FindFrom(_, _, _)
FindFrom(arr, id, i) ==
  IF i > Len(arr) THEN 0
  ELSE IF arr[i].id = id THEN i
  ELSE FindFrom(arr, id, i + 1)

FindById(arr, id) == FindFrom(arr, id, 1)

\* arr.find((a) => a.type === t)
RECURSIVE FindTypeFrom(_, _, _)
FindTypeFrom(arr, t, i) ==
  IF i > Len(arr) THEN 0
  ELSE IF arr[i].type = t THEN i
  ELSE FindTypeFrom(arr, t, i + 1)

FindByType(arr, t) == FindTypeFrom(arr, t, 1)

-----------------------------------------------------------------------------
(* initialState.ts *)

MINUTE == 60000

Slot(id, type, baseYield, unlocked) ==
  [id |-> id, type |-> type, level |-> 1, baseYield |-> baseYield,
   timer |-> null, harvestsSinceLevel |-> 0, gemUpgradeLevel |-> 0,
   unlocked |-> unlocked]

createInitialState ==
  [level |-> 1,
   resources |->
     [coins |-> 100, gems |-> 5, tomato |-> 0, cucumber |-> 0, corn |-> 0,
      watermelon |-> 0, apple |-> 0, milk |-> 0, egg |-> 0, cheese |-> 0,
      meat |-> 0, feathers |-> 0, wool |-> 0, feed |-> 5],
   crops |->
     << Slot("c1", "tomato", 3, TRUE),
        Slot("c2", "cucumber", 2, TRUE),
        Slot("c3", "tomato", 2, TRUE),
        Slot("c4", "corn", 3, FALSE),
        Slot("c5", "watermelon", 4, FALSE),
        Slot("c6", "apple", 5, FALSE) >>,
   animals |->
     << Slot("a1", "cow", 1, TRUE),
        Slot("a2", "chicken", 1, TRUE),
        Slot("a3", "goat", 1, FALSE),
        Slot("a4", "sheep", 1, FALSE),
        Slot("a5", "pig", 1, FALSE),
        Slot("a6", "goose", 1, FALSE) >>]

ResourceFields ==
  {"coins", "gems", "tomato", "cucumber", "corn", "watermelon", "apple",
   "milk", "egg", "cheese", "meat", "feathers", "wool", "feed"}

Goods == ResourceFields \ {"coins", "gems", "feed"}

-----------------------------------------------------------------------------
(* gameLogic: timers *)

\* a timer of the base duration, whatever the gem level
createTimerUnscaled(baseMinutes, gemLevel, t) ==
  [startedAt |-> t, durationMs |-> baseMinutes * MINUTE]

\* createTimer(durationMinutes) with durationMinutes = baseMinutes / 2^gemLevel
createTimer(baseMinutes, gemLevel, t) ==
  [startedAt |-> t, durationMs |-> (baseMinutes * MINUTE) \div Pow2(gemLevel)]

\* a readiness test that looks at the presence of the timer only
isTimerReadyWhenSet(timer, t) == timer # null

isTimerReady(timer, t) ==
  IF timer = null THEN FALSE
  ELSE t - timer.startedAt >= timer.durationMs

-----------------------------------------------------------------------------
(* gameLogic: repair of an externally sourced state *)

\* A resource value that is no number (a string, null, an object) is written
\* NotANumber; every other value of a resource field is an integer.
NotANumber == -999999

\* a type test that lets every value through
IsNumberAnything(v) == TRUE

\* typeof v === 'number'
IsNumber(v) == v # NotANumber

\* a repair that keeps the three currencies only
normalizeResourcesCurrenciesOnly(resources) ==
  LET base == createInitialState.resources IN
  [f \in {"coins", "gems", "feed"} |->
     IF resources # null /\ f \in DOMAIN resources /\ IsNumber(resources[f])
     THEN resources[f]
     ELSE base[f]]

\* normalizeResources(resources); an absent record is passed as null
normalizeResources(resources) ==
  LET base == createInitialState.resources IN
  IF resources = null THEN base
  ELSE [f \in ResourceFields \cup DOMAIN resources |->
          IF f \in ResourceFields
          THEN IF f \in DOMAIN resources /\ IsNumber(resources[f])
               THEN resources[f]
               ELSE base[f]
          ELSE resources[f]]

\* c != null && typeof c === 'object' && c.id != null
validSlot(c) == c # null /\ "id" \in DOMAIN c

\* arr.filter(validSlot)
RECURSIVE filterValid(_)
filterValid(arr) ==
  IF arr = <<>> THEN <<>>
  ELSE IF validSlot(Head(arr)) THEN <<Head(arr)>> \o filterValid(Tail(arr))
  ELSE filterValid(Tail(arr))

\* new Map(arr.map((c) => [c.id, c])).get(id): the last entry with that id,
\* as an index into arr, 0 if there is none
RECURSIVE lastById(_, _, _)
lastById(arr, id, i) ==
  IF i = 0 THEN 0
  ELSE IF arr[i].id = id THEN i
  ELSE lastById(arr, id, i - 1)

\* a merge that counts the load as a harvest
mergeSlotCountingLoad(tpl, safe) ==
  LET i == lastById(safe, tpl.id, Len(safe)) IN
  IF i = 0 THEN [harvestsSinceLevel |-> 0] @@ tpl
  ELSE [harvestsSinceLevel |-> Get(safe[i], "harvestsSinceLevel", 0) + 1] @@ safe[i] @@ tpl

\* a merge in which the template's fields win over the stored slot's
mergeSlotTemplateFirst(tpl, safe) ==
  LET i == lastById(safe, tpl.id, Len(safe)) IN
  IF i = 0 THEN [harvestsSinceLevel |-> 0] @@ tpl
  ELSE [harvestsSinceLevel |-> Get(safe[i], "harvestsSinceLevel", 0)] @@ tpl @@ safe[i]

\* { ...tpl, ...existing, harvestsSinceLevel: existing?.harvestsSinceLevel ?? 0 }
mergeSlot(tpl, safe) ==
  LET i == lastById(safe, tpl.id, Len(safe)) IN
  IF i = 0 THEN [harvestsSinceLevel |-> 0] @@ tpl
  ELSE [harvestsSinceLevel |-> Get(safe[i], "harvestsSinceLevel", 0)] @@ safe[i] @@ tpl

\* a repair that takes the stored collections as they are
ensureExtendedStateKeepingStored(s) ==
  LET base == createInitialState
      crops == IF "crops" \in DOMAIN s THEN filterValid(s.crops) ELSE base.crops
      animals == IF "animals" \in DOMAIN s THEN filterValid(s.animals) ELSE base.animals
      resources == normalizeResources(Get(s, "resources", null))
  IN [resources |-> resources, crops |-> crops, animals |-> animals] @@ s

\* a repair that forgets the revision
ensureExtendedStateDroppingRevision(s) ==
  LET base == createInitialState
      safeCrops == IF "crops" \in DOMAIN s THEN filterValid(s.crops) ELSE base.crops
      safeAnimals == IF "animals" \in DOMAIN s THEN filterValid(s.animals) ELSE base.animals
      crops == [j \in DOMAIN base.crops |-> mergeSlot(base.crops[j], safeCrops)]
      animals == [j \in DOMAIN base.animals |-> mergeSlot(base.animals[j], safeAnimals)]
      resources == normalizeResources(Get(s, "resources", null))
      rest == [f \in DOMAIN s \ {"revision"} |-> s[f]]
  IN [resources |-> resources, crops |-> crops, animals |-> animals] @@ rest

\* ensureExtendedState(state); a field the input lacks (or that is no array)
\* is absent from the record s
ensureExtendedState(s) ==
  LET base == createInitialState
      safeCrops == IF "crops" \in DOMAIN s THEN filterValid(s.crops) ELSE base.crops
      safeAnimals == IF "animals" \in DOMAIN s THEN filterValid(s.animals) ELSE base.animals
      crops == [j \in DOMAIN base.crops |-> mergeSlot(base.crops[j], safeCrops)]
      animals == [j \in DOMAIN base.animals |-> mergeSlot(base.animals[j], safeAnimals)]
      resources == normalizeResources(Get(s, "resources", null))
  IN [resources |-> resources, crops |-> crops, animals |-> animals] @@ s

-----------------------------------------------------------------------------
(* gameLogic: the reducer.  t is the value of Date.now() during the call. *)

\* every crop planted at the price of a tomato
cropCostFlat(type) == 5

cropCost(type) ==
  CASE type = "corn" -> 10
    [] type = "watermelon" -> 15
    [] type = "apple" -> 20
    [] OTHER -> 5

cropDurationMinutes(type) ==
  CASE type = "tomato" -> 3
    [] type = "cucumber" -> 5
    [] type = "corn" -> 6
    [] type = "watermelon" -> 8
    [] type = "apple" -> 10
    [] OTHER -> 5

animalDurationMinutes(type) ==
  CASE type = "cow" -> 10
    [] type = "chicken" -> 8
    [] type = "goat" -> 9
    [] type = "sheep" -> 9
    [] type = "pig" -> 12
    [] type = "goose" -> 7
    [] OTHER -> 10

\* plantCrop with the timer looked at only after the debit: planting on a busy
\* slot charges the player and leaves the running timer
plantCropChargesBusySlot(s, slotId, t) ==
  LET i == FindById(s.crops, slotId) IN
  IF i = 0 THEN s
  ELSE
    LET slot == s.crops[i]
        cost == cropCost(slot.type)
        gemLevel == Get(slot, "gemUpgradeLevel", 0)
        paid == [s EXCEPT !.resources.coins = @ - cost]
    IN
    IF s.resources.coins < cost THEN s
    ELSE IF slot.timer # null THEN paid
    ELSE
      [paid EXCEPT
         !.crops = [j \in DOMAIN s.crops |->
                      IF s.crops[j].id = slotId
                      THEN [s.crops[j] EXCEPT !.timer =
                              createTimer(cropDurationMinutes(slot.type), gemLevel, t)]
                      ELSE s.crops[j]]]

plantCrop(s, slotId, t) ==
  LET i == FindById(s.crops, slotId) IN
  IF i = 0 THEN s
  ELSE
    LET slot == s.crops[i]
        cost == cropCost(slot.type)
        gemLevel == Get(slot, "gemUpgradeLevel", 0)
    IN
    IF s.resources.coins < cost THEN s
    ELSE IF slot.timer # null THEN s
    ELSE
      [s EXCEPT
         !.resources.coins = @ - cost,
         !.crops = [j \in DOMAIN s.crops |->
                      IF s.crops[j].id = slotId
                      THEN [s.crops[j] EXCEPT !.timer =
                              createTimer(cropDurationMinutes(slot.type), gemLevel, t)]
                      ELSE s.crops[j]]]

feedAnimal(s, slotId, t) ==
  LET i == FindById(s.animals, slotId) IN
  IF i = 0 THEN s
  ELSE
    LET slot == s.animals[i]
        feedCost == 1
        gemLevel == Get(slot, "gemUpgradeLevel", 0)
    IN
    IF s.resources.feed < feedCost THEN s
    ELSE IF slot.timer # null THEN s
    ELSE
      [s EXCEPT
         !.resources.feed = @ - feedCost,
         !.animals = [j \in DOMAIN s.animals |->
                        IF s.animals[j].id = slotId
                        THEN [s.animals[j] EXCEPT !.timer =
                                createTimer(animalDurationMinutes(slot.type), gemLevel, t)]
                        ELSE s.animals[j]]]

cropProduct(type) ==
  CASE type = "tomato" -> "tomato"
    [] type = "cucumber" -> "cucumber"
    [] type = "corn" -> "corn"
    [] type = "watermelon" -> "watermelon"
    [] type = "apple" -> "apple"
    [] OTHER -> "none"

animalProduct(type) ==
  CASE type = "cow" -> "milk"
    [] type = "chicken" -> "egg"
    [] type = "goat" -> "cheese"
    [] type = "sheep" -> "wool"
    [] type = "pig" -> "meat"
    [] type = "goose" -> "feathers"
    [] OTHER -> "none"

\* a slot that gains a level with every harvest
harvestedSlotLevelEveryHarvest(c, slot) ==
  LET currentHarvests == Get(slot, "harvestsSinceLevel", 0)
      totalHarvests == currentHarvests + 1
  IN [timer |-> null,
      level |-> c.level + 1,
      harvestsSinceLevel |-> totalHarvests % 5] @@ c

\* the slot after a completed cycle: timer cleared, every 5th harvest +1 level
\* (the counters are computed from the slot that find() returned)
harvestedSlot(c, slot) ==
  LET currentHarvests == Get(slot, "harvestsSinceLevel", 0)
      totalHarvests == currentHarvests + 1
      levelUps == totalHarvests \div 5
      newHarvestsSinceLevel == totalHarvests % 5
  IN [timer |-> null,
      level |-> c.level + levelUps,
      harvestsSinceLevel |-> newHarvestsSinceLevel] @@ c

\* a credit that also hands out a unit of feed
creditWithFeed(resources, field, amount) ==
  IF field \in DOMAIN resources
  THEN [resources EXCEPT ![field] = @ + amount, !.feed = @ + 1]
  ELSE resources

credit(resources, field, amount) ==
  IF field \in DOMAIN resources
  THEN [resources EXCEPT ![field] = @ + amount]
  ELSE resources

harvestCrop(s, slotId, t) ==
  LET i == FindById(s.crops, slotId) IN
  IF i = 0 THEN s
  ELSE IF s.crops[i].timer = null THEN s
  ELSE IF ~isTimerReady(s.crops[i].timer, t) THEN s
  ELSE
    LET slot == s.crops[i]
        gemLevel == Get(slot, "gemUpgradeLevel", 0)
        yieldAmount == slot.baseYield * Pow2(gemLevel)
    IN
    [s EXCEPT
       !.resources = credit(@, cropProduct(slot.type), yieldAmount),
       !.crops = [j \in DOMAIN s.crops |->
                    IF s.crops[j].id = slotId
                    THEN harvestedSlot(s.crops[j], slot)
                    ELSE s.crops[j]]]

collectAnimalProduct(s, slotId, t) ==
  LET i == FindById(s.animals, slotId) IN
  IF i = 0 THEN s
  ELSE IF s.animals[i].timer = null THEN s
  ELSE IF ~isTimerReady(s.animals[i].timer, t) THEN s
  ELSE
    LET slot == s.animals[i]
        gemLevel == Get(slot, "gemUpgradeLevel", 0)
        yieldAmount == slot.baseYield * Pow2(gemLevel)
    IN
    [s EXCEPT
       !.resources = credit(@, animalProduct(slot.type), yieldAmount),
       !.animals = [j \in DOMAIN s.animals |->
                      IF s.animals[j].id = slotId
                      THEN harvestedSlot(s.animals[j], slot)
                      ELSE s.animals[j]]]

\* Math.round(base * 1.25)
\* the base price without the 25 % on top
priceUnscaled(base) == base

\* Math.round(base * 1.25)
price(base) == (5 * base + 2) \div 4

sellProduce(s) ==
  LET r == s.resources
      income ==
        r.tomato * price(3) + r.cucumber * price(4) + r.corn * price(5) +
        r.watermelon * price(6) + r.apple * price(6) + r.milk * price(9) +
        r.egg * price(6) + r.cheese * price(11) + r.meat * price(13) +
        r.feathers * price(4) + r.wool * price(7)
  IN
  IF income = 0 THEN s
  ELSE [s EXCEPT !.resources =
          [f \in DOMAIN r |->
             IF f = "coins" THEN r.coins + income
             ELSE IF f \in Goods THEN 0
             ELSE r[f]]]

\* a pack of feed whatever the balance
buyFeedOnCredit(s) ==
  [s EXCEPT !.resources.coins = @ - 20, !.resources.feed = @ + 5]

buyFeed(s) ==
  LET packCost == 20
      packAmount == 5
  IN
  IF s.resources.coins < packCost THEN s
  ELSE [s EXCEPT !.resources.coins = @ - packCost,
                 !.resources.feed = @ + packAmount]

BOOST_GEM_PER_MINUTE == 1

\* the gem cost computed by boostCrop / boostAnimal for a running timer
boostGemCost(timer, t) ==
  LET remainingMs == timer.durationMs - (t - timer.startedAt)
      remainingMinutes == CeilDiv(remainingMs, 60000)
  IN Max(1, remainingMinutes * BOOST_GEM_PER_MINUTE)

\* the query counting only the whole minutes left
getBoostCostWholeMinutes(timer, t) ==
  IF timer = null THEN 0
  ELSE
    LET remainingMs == timer.durationMs - (t - timer.startedAt) IN
    IF remainingMs <= 0 THEN 0
    ELSE Max(1, (remainingMs \div 60000) * BOOST_GEM_PER_MINUTE)

\* getBoostCost(timer), with t the value of Date.now()
getBoostCost(timer, t) ==
  IF timer = null THEN 0
  ELSE
    LET remainingMs == timer.durationMs - (t - timer.startedAt) IN
    IF remainingMs <= 0 THEN 0
    ELSE Max(1, CeilDiv(remainingMs, 60000) * BOOST_GEM_PER_MINUTE)

\* a boost that moves the start back by half the duration only
boostedSlotHalfway(c, t) ==
  [c EXCEPT !.timer = [c.timer EXCEPT !.startedAt = t - (c.timer.durationMs \div 2)]]

boostedSlot(c, t) ==
  [c EXCEPT !.timer = [c.timer EXCEPT !.startedAt = t - c.timer.durationMs]]

\* a boost that does not ask whether the timer is ready already
boostCropAlsoWhenReady(s, slotId, t) ==
  LET i == FindById(s.crops, slotId) IN
  IF i = 0 THEN s
  ELSE IF s.crops[i].timer = null THEN s
  ELSE
    LET gemCost == boostGemCost(s.crops[i].timer, t) IN
    IF s.resources.gems < gemCost THEN s
    ELSE
      [s EXCEPT
         !.resources.gems = @ - gemCost,
         !.crops = [j \in DOMAIN s.crops |->
                      IF s.crops[j].id = slotId
                      THEN boostedSlot(s.crops[j], t)
                      ELSE s.crops[j]]]

boostCrop(s, slotId, t) ==
  LET i == FindById(s.crops, slotId) IN
  IF i = 0 THEN s
  ELSE IF s.crops[i].timer = null THEN s
  ELSE IF isTimerReady(s.crops[i].timer, t) THEN s
  ELSE
    LET gemCost == boostGemCost(s.crops[i].timer, t) IN
    IF s.resources.gems < gemCost THEN s
    ELSE
      [s EXCEPT
         !.resources.gems = @ - gemCost,
         !.crops = [j \in DOMAIN s.crops |->
                      IF s.crops[j].id = slotId
                      THEN boostedSlot(s.crops[j], t)
                      ELSE s.crops[j]]]

boostAnimal(s, slotId, t) ==
  LET i == FindById(s.animals, slotId) IN
  IF i = 0 THEN s
  ELSE IF s.animals[i].timer = null THEN s
  ELSE IF isTimerReady(s.animals[i].timer, t) THEN s
  ELSE
    LET gemCost == boostGemCost(s.animals[i].timer, t) IN
    IF s.resources.gems < gemCost THEN s
    ELSE
      [s EXCEPT
         !.resources.gems = @ - gemCost,
         !.animals = [j \in DOMAIN s.animals |->
                        IF s.animals[j].id = slotId
                        THEN boostedSlot(s.animals[j], t)
                        ELSE s.animals[j]]]

\* every level at the price of the first
getUpgradeCostFlat(level) == 50

getUpgradeCost(level) == level * 50

\* an upgrade that raises every bed
upgradeCropWholeField(s, slotId) ==
  LET i == FindById(s.crops, slotId) IN
  IF i = 0 THEN s
  ELSE
    LET cost == getUpgradeCost(s.crops[i].level) IN
    IF s.resources.coins < cost THEN s
    ELSE
      [s EXCEPT
         !.resources.coins = @ - cost,
         !.crops = [j \in DOMAIN s.crops |-> [s.crops[j] EXCEPT !.level = @ + 1]]]

upgradeCrop(s, slotId) ==
  LET i == FindById(s.crops, slotId) IN
  IF i = 0 THEN s
  ELSE
    LET cost == getUpgradeCost(s.crops[i].level) IN
    IF s.resources.coins < cost THEN s
    ELSE
      [s EXCEPT
         !.resources.coins = @ - cost,
         !.crops = [j \in DOMAIN s.crops |->
                      IF s.crops[j].id = slotId
                      THEN [s.crops[j] EXCEPT !.level = @ + 1]
                      ELSE s.crops[j]]]

upgradeAnimal(s, slotId) ==
  LET i == FindById(s.animals, slotId) IN
  IF i = 0 THEN s
  ELSE
    LET cost == getUpgradeCost(s.animals[i].level) IN
    IF s.resources.coins < cost THEN s
    ELSE
      [s EXCEPT
         !.resources.coins = @ - cost,
         !.animals = [j \in DOMAIN s.animals |->
                        IF s.animals[j].id = slotId
                        THEN [s.animals[j] EXCEPT !.level = @ + 1]
                        ELSE s.animals[j]]]

-----------------------------------------------------------------------------
(* App.tsx: unlock gating and gem upgrades *)

gemLevelAt(arr, i) == IF i = 0 THEN 0 ELSE Get(arr[i], "gemUpgradeLevel", 0)

\* corn for two of the three starting beds
canUnlockCropTwoOfThree(type, s) ==
  LET gem2(id) == gemLevelAt(s.crops, FindById(s.crops, id)) >= 2 IN
  CASE type = "corn" -> gem2("c1") /\ gem2("c2")
    [] type = "watermelon" -> gem2("c4")
    [] type = "apple" -> gem2("c5")
    [] OTHER -> FALSE

canUnlockCrop(type, s) ==
  LET gem2(id) == gemLevelAt(s.crops, FindById(s.crops, id)) >= 2 IN
  CASE type = "corn" -> gem2("c1") /\ gem2("c2") /\ gem2("c3")
    [] type = "watermelon" -> gem2("c4")
    [] type = "apple" -> gem2("c5")
    [] OTHER -> FALSE

\* the goat without looking at cow and chicken
canUnlockAnimalCropsOnly(type, s) ==
  LET gem2Crop(id) == gemLevelAt(s.crops, FindById(s.crops, id)) >= 2
      gemOf(t) == gemLevelAt(s.animals, FindByType(s.animals, t))
  IN
  CASE type = "goat" -> gem2Crop("c1") /\ gem2Crop("c2") /\ gem2Crop("c3")
    [] type = "sheep" -> gemOf("goat") >= 2
    [] type = "pig" -> gemOf("sheep") >= 2
    [] type = "goose" -> gemOf("pig") >= 2
    [] OTHER -> FALSE

canUnlockAnimal(type, s) ==
  LET gem2Crop(id) == gemLevelAt(s.crops, FindById(s.crops, id)) >= 2
      gemOf(t) == gemLevelAt(s.animals, FindByType(s.animals, t))
  IN
  CASE type = "goat" ->
         /\ gem2Crop("c1") /\ gem2Crop("c2") /\ gem2Crop("c3")
         /\ gemOf("cow") >= 1 /\ gemOf("chicken") >= 1
    [] type = "sheep" -> gemOf("goat") >= 2
    [] type = "pig" -> gemOf("sheep") >= 2
    [] type = "goose" -> gemOf("pig") >= 2
    [] OTHER -> FALSE

\* the updater of handleUnlockCrop
unlockCrop(prev, id) ==
  LET i == FindById(prev.crops, id) IN
  IF i = 0 THEN prev
  ELSE IF Get(prev.crops[i], "unlocked", FALSE) THEN prev
  ELSE IF prev.resources.gems < 30 THEN prev
  ELSE IF ~canUnlockCrop(prev.crops[i].type, prev) THEN prev
  ELSE
    [prev EXCEPT
       !.resources.gems = @ - 30,
       !.crops = [j \in DOMAIN prev.crops |->
                    IF prev.crops[j].id = id
                    THEN [unlocked |-> TRUE] @@ prev.crops[j]
                    ELSE prev.crops[j]]]

\* an unlock button that works as a switch
unlockAnimalToggling(prev, id) ==
  LET i == FindById(prev.animals, id) IN
  IF i = 0 THEN prev
  ELSE
    [prev EXCEPT
       !.animals = [j \in DOMAIN prev.animals |->
                      IF prev.animals[j].id = id
                      THEN [unlocked |-> ~Get(prev.animals[j], "unlocked", FALSE)]
                             @@ prev.animals[j]
                      ELSE prev.animals[j]]]

\* the updater of handleUnlockAnimal
unlockAnimal(prev, id) ==
  LET i == FindById(prev.animals, id) IN
  IF i = 0 THEN prev
  ELSE IF Get(prev.animals[i], "unlocked", FALSE) THEN prev
  ELSE IF prev.resources.gems < 30 THEN prev
  ELSE IF ~canUnlockAnimal(prev.animals[i].type, prev) THEN prev
  ELSE
    [prev EXCEPT
       !.resources.gems = @ - 30,
       !.animals = [j \in DOMAIN prev.animals |->
                      IF prev.animals[j].id = id
                      THEN [unlocked |-> TRUE] @@ prev.animals[j]
                      ELSE prev.animals[j]]]

\* getCropGemMaxLevel one level too generous
getCropGemMaxLevelOffByOne(type) ==
  IF type \in {"tomato", "cucumber", "corn", "watermelon", "apple"} THEN 3 ELSE 0

getCropGemMaxLevel(type) ==
  IF type \in {"tomato", "cucumber", "corn", "watermelon", "apple"} THEN 2 ELSE 0

getAnimalGemMaxLevel(type) ==
  CASE type = "cow" -> 1
    [] type = "chicken" -> 1
    [] type \in {"goat", "sheep", "pig", "goose"} -> 2
    [] OTHER -> 0

\* the callback handleGemUpgradeCrop maps over prev.crops
gemUpgradedCrop(c, id, gems) ==
  IF c.id # id THEN c
  ELSE
    LET current == Get(c, "gemUpgradeLevel", 0)
        max == getCropGemMaxLevel(c.type)
    IN
    IF current >= max THEN c
    ELSE IF gems < 20 THEN c
    ELSE [gemUpgradeLevel |-> current + 1] @@ c

\* the updater of handleGemUpgradeCrop.  `changed` compares the array that
\* Array.prototype.map returned with prev.crops by reference; map always
\* returns a fresh array, so the comparison is true whatever the callback did.
gemUpgradeCrop(prev, id) ==
  LET crops == [j \in DOMAIN prev.crops |->
                  gemUpgradedCrop(prev.crops[j], id, prev.resources.gems)]
      changed == TRUE
  IN
  IF ~changed THEN prev
  ELSE [prev EXCEPT !.resources.gems = @ - 20, !.crops = crops]

\* every animal at the price of the chicken
animalGemPriceFlat(type) == 20

animalGemPrice(type) ==
  IF type = "cow" THEN 30 ELSE IF type = "chicken" THEN 20 ELSE 60

\* the callback handleGemUpgradeAnimal maps over prev.animals
gemUpgradedAnimal(a, id, gems) ==
  IF a.id # id THEN a
  ELSE
    LET current == Get(a, "gemUpgradeLevel", 0)
        max == getAnimalGemMaxLevel(a.type)
    IN
    IF current >= max THEN a
    ELSE IF gems < animalGemPrice(a.type) THEN a
    ELSE [gemUpgradeLevel |-> current + 1] @@ a

\* animals.find((a, idx) => a.gemUpgradeLevel !== (prev.animals[idx].gemUpgradeLevel ?? 0))
RECURSIVE FindUpgradedFrom(_, _, _)
FindUpgradedFrom(animals, prevAnimals, i) ==
  IF i > Len(animals) THEN 0
  ELSE IF Get(animals[i], "gemUpgradeLevel", -1) # Get(prevAnimals[i], "gemUpgradeLevel", 0)
       THEN i
  ELSE FindUpgradedFrom(animals, prevAnimals, i + 1)

\* the updater of handleGemUpgradeAnimal
gemUpgradeAnimal(prev, id) ==
  LET animals == [j \in DOMAIN prev.animals |->
                    gemUpgradedAnimal(prev.animals[j], id, prev.resources.gems)]
      changed == TRUE
      upgraded == FindUpgradedFrom(animals, prev.animals, 1)
  IN
  IF ~changed THEN prev
  ELSE IF upgraded = 0 THEN prev
  ELSE [prev EXCEPT
          !.resources.gems = @ - animalGemPrice(animals[upgraded].type),
          !.animals = animals]

\* the updater of handleExchangeGemsToCoins
exchangeGemsToCoins(prev) ==
  IF prev.resources.gems < 10 THEN prev
  ELSE [prev EXCEPT !.resources.gems = @ - 10, !.resources.coins = @ + 100]

COINS_TO_GEMS_COST == 100000

COINS_TO_GEMS_AMOUNT == 10000

\* the updater of handleExchangeCoinsToGems
exchangeCoinsToGems(prev) ==
  IF prev.resources.coins < COINS_TO_GEMS_COST THEN prev
  ELSE [prev EXCEPT !.resources.coins = @ - COINS_TO_GEMS_COST,
                    !.resources.gems = @ + COINS_TO_GEMS_AMOUNT]

-----------------------------------------------------------------------------
(* App.tsx: the controller.  Every handler runs to completion (one event    *)
(* of the single-threaded event loop) and is one action.                   *)

\* current.revision ?? 0
Rev(s) == Get(s, "revision", 0)

\* a dispatch that counts and flags only what the updater changed
applyStateUpdateWhenChanged(updated) ==
  LET next == IF updated = state THEN state
              ELSE [revision |-> Rev(state) + 1] @@ updated
  IN
  /\ state' = next
  /\ dirty' = (dirty \/ updated # state)
  /\ latestStateRef' = next
  /\ syncTimeout' = TRUE
  /\ localSeq' = localSeq + 1
  /\ UNCHANGED <<now, net, server>>

\* applyStateUpdate(updater), where updated = updater(current): the revision
\* is incremented, the dirty flag set, the ref refreshed and the debounce
\* timer re-armed, whatever the updater returned.
applyStateUpdate(updated) ==
  LET nextRevision == Rev(state) + 1
      next == [revision |-> nextRevision] @@ updated
  IN
  /\ state' = next
  /\ dirty' = TRUE
  /\ latestStateRef' = next
  /\ syncTimeout' = TRUE
  /\ localSeq' = localSeq + 1
  /\ UNCHANGED <<now, net, server>>

\* setState(updater) outside applyStateUpdate (the two exchanges); the effect
\* of App.tsx:366 copies the new state into latestStateRef after the render.
setStateOnly(updated) ==
  /\ state' = updated
  /\ latestStateRef' = updated
  /\ localSeq' = IF updated = state THEN localSeq ELSE localSeq + 1
  /\ UNCHANGED <<dirty, syncTimeout, now, net, server>>

handlePlant(id) == applyStateUpdate(plantCrop(state, id, now))

handleFeed(id) == applyStateUpdate(feedAnimal(state, id, now))

handleHarvestCrop(id) == applyStateUpdate(harvestCrop(state, id, now))

handleCollectProduct(id) == applyStateUpdate(collectAnimalProduct(state, id, now))

handleSell == applyStateUpdate(sellProduce(state))

handleBuyFeed == applyStateUpdate(buyFeed(state))

handleBoostCrop(id) == applyStateUpdate(boostCrop(state, id, now))

handleBoostAnimal(id) == applyStateUpdate(boostAnimal(state, id, now))

handleUpgradeCrop(id) == applyStateUpdate(upgradeCrop(state, id))

handleUpgradeAnimal(id) == applyStateUpdate(upgradeAnimal(state, id))

handleUnlockCrop(id) == applyStateUpdate(unlockCrop(state, id))

handleUnlockAnimal(id) == applyStateUpdate(unlockAnimal(state, id))

handleGemUpgradeCrop(id) == applyStateUpdate(gemUpgradeCrop(state, id))

handleGemUpgradeAnimal(id) == applyStateUpdate(gemUpgradeAnimal(state, id))

handleExchangeGemsToCoins == setStateOnly(exchangeGemsToCoins(state))

handleExchangeCoinsToGems == setStateOnly(exchangeCoinsToGems(state))

\* the wall clock advances, three minutes at a time: the shortest base
\* duration, which leaves the longer timers and the gem-upgraded ones
\* part-way through
TickMs == 3 * MINUTE

Tick ==
  /\ now + TickMs <= MaxTicks * TickMs
  /\ now' = now + TickMs
  /\ UNCHANGED <<state, latestStateRef, dirty, syncTimeout, net, server, localSeq>>

-----------------------------------------------------------------------------
(* The player's inputs *)

\* the ids a dispatch may name: an unlocked and a locked crop slot, the two
\* starting animals and a locked one, and one id that names no slot
CropIds == {"c1", "c4"}

AnimalIds == {"a1", "a2", "a3"}

UnknownId == "zz"

\* Accounts the session starts from (the remote store keeps the account
\* between sessions): a fresh one, one that bought gems, one that has earned
\* coins, and one that has gem-upgraded its starting slots.
StartBalances ==
  { [coins |-> 100, gems |-> 5],
    [coins |-> 100, gems |-> 65],
    [coins |-> 100000, gems |-> 5] }

gemUpgradedTo(slot, n) == [slot EXCEPT !.gemUpgradeLevel = n]

VeteranState ==
  LET s == createInitialState IN
  [s EXCEPT
     !.resources.gems = 95,
     !.crops = [j \in DOMAIN s.crops |->
                  IF j <= 3 THEN gemUpgradedTo(s.crops[j], 2) ELSE s.crops[j]],
     !.animals = [j \in DOMAIN s.animals |->
                    IF j <= 2 THEN gemUpgradedTo(s.animals[j], 1) ELSE s.animals[j]]]

\* harvests already made towards the next level of a slot
harvestedTimes(slot, n) == [slot EXCEPT !.harvestsSinceLevel = n]

\* an account part-way through its levels: c1 and the chicken one harvest
\* short of a level, the cow two
SeasonedState ==
  LET s == createInitialState IN
  [s EXCEPT
     !.resources.gems = 15,
     !.crops[1] = harvestedTimes(s.crops[1], 4),
     !.animals[1] = harvestedTimes(s.animals[1], 3),
     !.animals[2] = harvestedTimes(s.animals[2], 4)]

StartStates ==
  { [createInitialState EXCEPT !.resources.coins = b.coins,
                               !.resources.gems = b.gems] : b \in StartBalances }
  \cup {VeteranState, SeasonedState}

NoServer == [snap |-> createInitialState, seq |-> 0]

Init ==
  /\ state \in StartStates
  /\ latestStateRef = state
  /\ dirty = FALSE
  /\ syncTimeout = FALSE
  /\ now = 0
  /\ net = {}
  /\ server = NoServer
  /\ localSeq = 0

\* the player has made fewer than n moves
StepsLeft(n) == localSeq < n

Next ==
  \/ \E id \in CropIds \cup {UnknownId} :
       \/ StepsLeft(MaxSteps) /\ handlePlant(id)
       \/ StepsLeft(MaxSteps) /\ handleHarvestCrop(id)
       \/ StepsLeft(MaxSteps) /\ handleBoostCrop(id)
       \/ StepsLeft(MaxSteps) /\ handleUpgradeCrop(id)
       \/ StepsLeft(MaxSteps) /\ handleUnlockCrop(id)
       \/ StepsLeft(MaxSteps) /\ handleGemUpgradeCrop(id)
  \/ \E id \in AnimalIds \cup {UnknownId} :
       \/ StepsLeft(MaxSteps) /\ handleFeed(id)
       \/ StepsLeft(MaxSteps) /\ handleCollectProduct(id)
       \/ StepsLeft(MaxSteps) /\ handleBoostAnimal(id)
       \/ StepsLeft(MaxSteps) /\ handleUpgradeAnimal(id)
       \/ StepsLeft(MaxSteps) /\ handleUnlockAnimal(id)
       \/ StepsLeft(MaxSteps) /\ handleGemUpgradeAnimal(id)
  \/ StepsLeft(MaxSteps) /\ handleSell
  \/ StepsLeft(MaxSteps) /\ handleBuyFeed
  \/ StepsLeft(MaxSteps) /\ handleExchangeGemsToCoins
  \/ StepsLeft(MaxSteps) /\ handleExchangeCoinsToGems
  \/ Tick

Spec == Init /\ [][Next]_vars

-----------------------------------------------------------------------------
(* App.tsx and api.ts: reconciliation with the remote store.  A fetch is a  *)
(* message: "req" on its way to the store, then "ok" or "fail" on its way   *)
(* back (fail: a network error or a non-OK response, which syncFarm and     *)
(* getMe turn into a null result).                                          *)

WriteReq(src, snap, seq) ==
  [kind |-> "syncFarm", src |-> src, phase |-> "req", snap |-> snap, seq |-> seq]

PullReq(src) ==
  [kind |-> "getMe", src |-> src, phase |-> "req", snap |-> null, seq |-> 0]

Send(m) ==
  /\ Cardinality(net \cup {m}) <= MaxInFlight
  /\ net' = net \cup {m}

\* the callback of the debounce timer armed by applyStateUpdate
DebounceFire ==
  /\ syncTimeout
  /\ syncTimeout' = FALSE
  /\ IF ~dirty
     THEN UNCHANGED net
     ELSE Send(WriteReq("debounce", latestStateRef, localSeq))
  /\ UNCHANGED <<state, latestStateRef, dirty, now, server, localSeq>>

\* the callback of the 5-second interval
PeriodicFire ==
  /\ dirty
  /\ Send(WriteReq("periodic", latestStateRef, localSeq))
  /\ UNCHANGED <<state, latestStateRef, dirty, syncTimeout, now, server, localSeq>>

\* a refresh that pulls at once, whatever the dirty flag says
forceRefreshPullingAtOnce ==
  /\ Send(PullReq("force"))
  /\ UNCHANGED <<state, latestStateRef, dirty, syncTimeout, now, server, localSeq>>

\* forceRefreshFromServer(): push first when dirty, else pull
forceRefreshFromServer ==
  /\ IF dirty
     THEN Send(WriteReq("force", latestStateRef, localSeq))
     ELSE Send(PullReq("force"))
  /\ UNCHANGED <<state, latestStateRef, dirty, syncTimeout, now, server, localSeq>>

\* flushStateBeacon(): on pagehide / beforeunload / visibility hidden the
\* latest snapshot is posted with sendBeacon, whatever the dirty flag says;
\* nobody waits for the answer
flushStateBeacon ==
  /\ Send(WriteReq("beacon", latestStateRef, localSeq))
  /\ UNCHANGED <<state, latestStateRef, dirty, syncTimeout, now, server, localSeq>>

\* the answer to a beacon is dropped
BeaconDone(m) ==
  /\ m \in net
  /\ m.kind = "syncFarm"
  /\ m.src = "beacon"
  /\ m.phase \in {"ok", "fail"}
  /\ net' = net \ {m}
  /\ UNCHANGED <<state, latestStateRef, dirty, syncTimeout, now, server, localSeq>>

\* the remote store accepts a write, or answers a pull with its snapshot
ServerOk(m) ==
  /\ m \in net
  /\ m.phase = "req"
  /\ IF m.kind = "syncFarm"
     THEN /\ server' = [server EXCEPT !.snap = m.snap, !.seq = m.seq]
          /\ net' = (net \ {m}) \cup {[m EXCEPT !.phase = "ok"]}
     ELSE /\ UNCHANGED server
          /\ net' = (net \ {m}) \cup
                      {[m EXCEPT !.phase = "ok", !.snap = server.snap, !.seq = server.seq]}
  /\ UNCHANGED <<state, latestStateRef, dirty, syncTimeout, now, localSeq>>

\* the request fails: network error or non-OK response
ServerFail(m) ==
  /\ m \in net
  /\ m.phase = "req"
  /\ net' = (net \ {m}) \cup {[m EXCEPT !.phase = "fail"]}
  /\ UNCHANGED <<state, latestStateRef, dirty, syncTimeout, now, server, localSeq>>

\* syncFarm(...).then(...): syncFarm catches every error and resolves to null,
\* so the then-callback runs for a failed write as for a successful one.
\* The callback of forceRefreshFromServer goes on to doLoad().
SyncFarmResolved(m) ==
  /\ m \in net
  /\ m.kind = "syncFarm"
  /\ m.src # "beacon"
  /\ m.phase \in {"ok", "fail"}
  /\ dirty' = FALSE
  /\ net' = IF m.src = "force"
            THEN (net \ {m}) \cup {PullReq("force")}
            ELSE net \ {m}
  /\ UNCHANGED <<state, latestStateRef, syncTimeout, now, server, localSeq>>

\* the state built from a MeResponse
fromMe(data) ==
  ensureExtendedState(
    [f \in {"level", "resources", "crops", "animals", "revision"} \cap DOMAIN data |->
       data[f]])

\* a pull handler without the re-check of dirtyRef: the response is installed
\* whatever the flag says
GetMeResolvedIgnoringDirty(m) ==
  /\ m \in net
  /\ m.kind = "getMe"
  /\ m.phase \in {"ok", "fail"}
  /\ net' = net \ {m}
  /\ IF m.phase = "fail" \/ "level" \notin DOMAIN m.snap
     THEN UNCHANGED <<state, latestStateRef, localSeq>>
     ELSE /\ state' = fromMe(m.snap)
          /\ latestStateRef' = fromMe(m.snap)
          /\ localSeq' = m.seq
  /\ UNCHANGED <<dirty, syncTimeout, now, server>>

\* getMe(...).then((data) => ...) of syncGameState and of doLoad; an answer
\* without a level is dropped
GetMeResolved(m) ==
  /\ m \in net
  /\ m.kind = "getMe"
  /\ m.phase \in {"ok", "fail"}
  /\ net' = net \ {m}
  /\ IF dirty \/ m.phase = "fail" \/ "level" \notin DOMAIN m.snap
     THEN UNCHANGED <<state, latestStateRef, localSeq>>
     ELSE /\ state' = fromMe(m.snap)
          /\ latestStateRef' = fromMe(m.snap)
          /\ localSeq' = m.seq
  /\ UNCHANGED <<dirty, syncTimeout, now, server>>

-----------------------------------------------------------------------------
(* The sync protocol with a few local actions *)

\* The page has just been opened: the state is the template's, the remote
\* store holds the account, and the start-up effect (App.tsx:538) has called
\* syncGameState(), which found the dirty flag clear and issued its getMe.
InitSync ==
  /\ state = createInitialState
  /\ latestStateRef = state
  /\ dirty = FALSE
  /\ syncTimeout = FALSE
  /\ now = 0
  /\ net = {PullReq("sync")}
  /\ server \in {[snap |-> s, seq |-> 0] : s \in StartStates}
  /\ localSeq = 0

NextSync ==
  \/ StepsLeft(MaxSyncSteps) /\ handleBuyFeed
  \/ StepsLeft(MaxSyncSteps) /\ handleExchangeGemsToCoins
  \/ DebounceFire
  \/ PeriodicFire
  \/ forceRefreshFromServer
  \/ flushStateBeacon
  \/ \E m \in net : BeaconDone(m)
  \/ \E m \in net : ServerOk(m)
  \/ \E m \in net : ServerFail(m)
  \/ \E m \in net : SyncFarmResolved(m)
  \/ \E m \in net : GetMeResolved(m)

SpecSync == InitSync /\ [][NextSync]_vars

-----------------------------------------------------------------------------
(* The sync protocol when every write succeeds and the page stays open:     *)
(* the state has been loaded, the player acts a bounded number of times,    *)
(* the two timers fire and every fetch is answered.                         *)

InitReliable ==
  /\ state \in StartStates
  /\ latestStateRef = state
  /\ dirty = FALSE
  /\ syncTimeout = FALSE
  /\ now = 0
  /\ net = {}
  /\ server = [snap |-> state, seq |-> 0]
  /\ localSeq = 0

DeliverWrite == \E m \in net : ServerOk(m)

ResolveWrite == \E m \in net : SyncFarmResolved(m)

NextReliable ==
  \/ StepsLeft(MaxSyncSteps) /\ handleBuyFeed
  \/ StepsLeft(MaxSyncSteps) /\ handlePlant("c1")
  \/ DebounceFire
  \/ PeriodicFire
  \/ DeliverWrite
  \/ ResolveWrite

\* setTimeout and setInterval callbacks run, and every fetch settles
SpecReliable ==
  /\ InitReliable
  /\ [][NextReliable]_vars
  /\ WF_vars(DebounceFire)
  /\ WF_vars(PeriodicFire)
  /\ WF_vars(DeliverWrite)
  /\ WF_vars(ResolveWrite)

-----------------------------------------------------------------------------
(* Slots of the held state *)

Slots(s) ==
  {s.crops[j] : j \in DOMAIN s.crops} \cup {s.animals[j] : j \in DOMAIN s.animals}

AllIds == {"c1", "c2", "c3", "c4", "c5", "c6",
           "a1", "a2", "a3", "a4", "a5", "a6", UnknownId}

CropSlotsWith(s, id) == {c \in {s.crops[j] : j \in DOMAIN s.crops} : c.id = id}

AnimalSlotsWith(s, id) == {a \in {s.animals[j] : j \in DOMAIN s.animals} : a.id = id}

-----------------------------------------------------------------------------
(* C1 *)

\* C1: after any sequence of player actions dispatched through the
\* controller, every field of resources is a non-negative integer.
C1_ResourcesNonNegative ==
  \A f \in ResourceFields : state.resources[f] \in Nat

-----------------------------------------------------------------------------
(* C2 *)

\* C2: the local game state is never replaced by a remote snapshot that lacks
\* a local mutation already applied locally: no step takes the local state
\* back to one that includes fewer local mutations.
C2_NoLocalMutationLost == [][localSeq' >= localSeq]_vars

-----------------------------------------------------------------------------
(* C3 *)

\* C3: when a remote write attempt fails, the dirty flag remains set (it is
\* cleared only after a successful write); this covers the debounced write,
\* the periodic write and the write inside forceRefreshFromServer.
C3_FailedWriteKeepsDirty ==
  [][\A m \in net :
       (SyncFarmResolved(m) /\ m.phase = "fail" /\ dirty) => dirty']_vars

-----------------------------------------------------------------------------
(* C4 *)

\* C4: whenever the dirty flag is clear, the snapshot last written to the
\* remote store includes every local mutation applied so far.
C4_CleanMeansSent == ~dirty => server.seq >= localSeq

-----------------------------------------------------------------------------
(* C5 *)

\* C5: every local action that changes the game state sets the dirty flag
\* (under Spec every step that changes the game state is a local action).
C5_MutationSetsDirty == [][state' # state => dirty']_vars

-----------------------------------------------------------------------------
(* C6 *)

\* C6: once the player has stopped and with every write succeeding, under
\* fair timers eventually the dirty flag is clear and the remote store holds
\* the latest local game state, for good.
C6_EventuallyConsistent == <>[](~dirty /\ server.snap = state)

-----------------------------------------------------------------------------
(* C7 *)

\* the planting cost by crop type, as the contract states it
PlantCostOf(type) ==
  CASE type = "tomato" -> 5
    [] type = "cucumber" -> 5
    [] type = "corn" -> 10
    [] type = "watermelon" -> 15
    [] type = "apple" -> 20

Busy(slot) == slot.timer # null

Ready(slot) == Busy(slot) /\ now - slot.timer.startedAt >= slot.timer.durationMs

\* whole minutes left on a running timer, rounded up, at least 1
BoostPriceOf(slot) ==
  LET left == slot.timer.startedAt + slot.timer.durationMs - now
      minutes == (left + 59999) \div 60000
  IN IF minutes < 1 THEN 1 ELSE minutes

PlantRejected(id) ==
  \/ CropSlotsWith(state, id) = {}
  \/ \E c \in CropSlotsWith(state, id) :
       Busy(c) \/ state.resources.coins < PlantCostOf(c.type)

FeedRejected(id) ==
  \/ AnimalSlotsWith(state, id) = {}
  \/ \E a \in AnimalSlotsWith(state, id) : Busy(a) \/ state.resources.feed < 1

HarvestRejected(slots) == slots = {} \/ \E c \in slots : ~Ready(c)

BoostRejected(slots) ==
  \/ slots = {}
  \/ \E c \in slots :
       \/ ~Busy(c)
       \/ Ready(c)
       \/ state.resources.gems < BoostPriceOf(c)

UpgradeRejected(slots) ==
  slots = {} \/ \E c \in slots : state.resources.coins < c.level * 50

SellRejected == \A g \in Goods : state.resources[g] = 0

BuyFeedRejected == state.resources.coins < 20

\* C7: whenever a precondition of a reducer function fails, the function
\* returns its input state unchanged (no resource and no slot field differs).
C7_RejectedIsNoOp ==
  /\ \A id \in AllIds :
       /\ PlantRejected(id) => plantCrop(state, id, now) = state
       /\ FeedRejected(id) => feedAnimal(state, id, now) = state
       /\ HarvestRejected(CropSlotsWith(state, id)) => harvestCrop(state, id, now) = state
       /\ HarvestRejected(AnimalSlotsWith(state, id)) =>
            collectAnimalProduct(state, id, now) = state
       /\ BoostRejected(CropSlotsWith(state, id)) => boostCrop(state, id, now) = state
       /\ BoostRejected(AnimalSlotsWith(state, id)) => boostAnimal(state, id, now) = state
       /\ UpgradeRejected(CropSlotsWith(state, id)) => upgradeCrop(state, id) = state
       /\ UpgradeRejected(AnimalSlotsWith(state, id)) => upgradeAnimal(state, id) = state
  /\ SellRejected => sellProduce(state) = state
  /\ BuyFeedRejected => buyFeed(state) = state

\* C7 witness: a planted slot whose timer is still running (planting it
\* again and harvesting it are rejected) and nothing to sell, after a
\* dispatch that the reducer rejected (two dispatches, one effect).
C7_Witness ==
  /\ Rev(state) >= 2
  /\ \E c \in CropSlotsWith(state, "c1") : Busy(c) /\ ~Ready(c)
  /\ PlantRejected("c1")
  /\ HarvestRejected(CropSlotsWith(state, "c1"))
  /\ SellRejected
  /\ \E s0 \in StartStates :
       state = [revision |-> Rev(state)] @@ plantCrop(s0, "c1", 0)

-----------------------------------------------------------------------------
(* C8 *)

CropGemMaxOf(type) == 2

AnimalGemMaxOf(type) == IF type \in {"cow", "chicken"} THEN 1 ELSE 2

AnimalGemPriceOf(type) ==
  CASE type = "cow" -> 30
    [] type = "chicken" -> 20
    [] OTHER -> 60

GemUpgradeCropRejected(id) ==
  \/ CropSlotsWith(state, id) = {}
  \/ \E c \in CropSlotsWith(state, id) :
       c.gemUpgradeLevel >= CropGemMaxOf(c.type) \/ state.resources.gems < 20

GemUpgradeAnimalRejected(id) ==
  \/ AnimalSlotsWith(state, id) = {}
  \/ \E a \in AnimalSlotsWith(state, id) :
       \/ a.gemUpgradeLevel >= AnimalGemMaxOf(a.type)
       \/ state.resources.gems < AnimalGemPriceOf(a.type)

\* what a dispatch leaves of the state apart from the revision
SameGame(s, t) ==
  /\ s.resources = t.resources
  /\ s.crops = t.crops
  /\ s.animals = t.animals
  /\ s.level = t.level

\* C8: a gem-upgrade request on a slot at its maximum, with too few gems, or
\* naming an unknown slot changes no resource and no slot.
C8_RejectedGemUpgradeIsNoOp ==
  \A id \in AllIds :
    /\ GemUpgradeCropRejected(id) => SameGame(gemUpgradeCrop(state, id), state)
    /\ GemUpgradeAnimalRejected(id) => SameGame(gemUpgradeAnimal(state, id), state)

-----------------------------------------------------------------------------
(* C9 *)

GemMaxOf(type) ==
  IF type \in {"cow", "chicken"} THEN 1 ELSE 2

\* C9: every slot's gemUpgradeLevel is an integer between 0 and its type
\* maximum (2 for crops, 1 for cow and chicken, 2 for the other animals).
C9_GemLevelInRange ==
  \A c \in Slots(state) : c.gemUpgradeLevel \in 0..GemMaxOf(c.type)

\* C9 witness: a crop and an animal that started at gem level 0 have been
\* gem-upgraded to their maxima.
C9_Witness ==
  /\ state.crops[4].gemUpgradeLevel = 2
  /\ state.animals[2].gemUpgradeLevel = 1
  /\ state.resources.gems = 5
  /\ Rev(state) = 3

-----------------------------------------------------------------------------
(* C10 *)

\* C10: every local action that changes the game state increases revision by
\* exactly 1 (under Spec every step that changes the game state is a local
\* action).
C10_MutationBumpsRevision == [][state' # state => Rev(state') = Rev(state) + 1]_vars

-----------------------------------------------------------------------------
(* C11 *)

\* C11: the revision held in the client state never decreases: no step, a
\* local action or the installation of a snapshot pulled from the remote
\* store, makes revision smaller than it was before.
C11_RevisionMonotone == [][Rev(state') >= Rev(state)]_vars

-----------------------------------------------------------------------------
(* Pulls against local actions: syncGameState and forceRefreshFromServer    *)
(* may be called at any moment of a session.                                *)

\* syncGameState(): nothing is fetched while the dirty flag is set
syncGameState ==
  /\ IF dirty
     THEN UNCHANGED net
     ELSE Send(PullReq("sync"))
  /\ UNCHANGED <<state, latestStateRef, dirty, syncTimeout, now, server, localSeq>>

InitPull ==
  /\ state = createInitialState
  /\ latestStateRef = state
  /\ dirty = FALSE
  /\ syncTimeout = FALSE
  /\ now = 0
  /\ net = {}
  /\ server = [snap |-> VeteranState, seq |-> 0]
  /\ localSeq = 0

NextPull ==
  \/ StepsLeft(MaxPullSteps) /\ handleBuyFeed
  \/ syncGameState
  \/ forceRefreshFromServer
  \/ DebounceFire
  \/ \E m \in net : ServerOk(m)
  \/ \E m \in net : ServerFail(m)
  \/ \E m \in net : SyncFarmResolved(m)
  \/ \E m \in net : GetMeResolved(m)

SpecPull == InitPull /\ [][NextPull]_vars

-----------------------------------------------------------------------------
(* C12 *)

\* a pull answer (ok or failed) that the step hands to its then-callback
PullAnswersHandled == {m \in net \ net' : m.kind = "getMe" /\ m.phase # "req"}

\* a getMe request of syncGameState that the step issues
SyncPullsIssued ==
  {m \in net' \ net : m.kind = "getMe" /\ m.src = "sync" /\ m.phase = "req"}

\* C12: while the dirty flag is set, syncGameState issues no fetch, and a
\* pull response (of syncGameState or forceRefreshFromServer) that is handled
\* is discarded: the local state and latestStateRef stay as they were.
C12_PullSuppressedWhileDirty ==
  [][dirty =>
       (/\ SyncPullsIssued = {}
        /\ (PullAnswersHandled # {}) =>
              (state' = state /\ latestStateRef' = latestStateRef))]_vars

\* C12 witness: the dirty flag is set while a pull has come back with a
\* snapshot that differs from the local state
C12_Witness ==
  /\ dirty
  /\ \E m \in net : /\ m.kind = "getMe"
                    /\ m.phase = "ok"
                    /\ fromMe(m.snap) # state
                    /\ m.src = "sync"
  /\ \E m \in net : m.kind = "getMe" /\ m.phase = "ok" /\ m.src = "force"

-----------------------------------------------------------------------------
(* Repair of a stored state: the value parsed from storage or received from *)
(* the remote store is passed through ensureExtendedState (App.tsx:549,     *)
(* 388, 592) before it becomes the state.  The stored value may predate the *)
(* current schema or be damaged.                                            *)

\* an optional field of a stored value
Absent == [has |-> FALSE]

Present(v) == [has |-> TRUE, v |-> v]

\* the record { [name]: o.v }, empty when the field is absent
Field(name, o) == IF o.has THEN [f \in {name} |-> o.v] ELSE [f \in {} |-> 0]

\* a slot that has been played for a while
playedSlot(tpl) ==
  [tpl EXCEPT !.level = 3, !.harvestsSinceLevel = 2, !.gemUpgradeLevel = 1,
              !.unlocked = TRUE,
              !.timer = [startedAt |-> 0, durationMs |-> 90000]]

\* a slot written by an older schema: no harvestsSinceLevel, gemUpgradeLevel
\* or unlocked
legacySlot(tpl) ==
  [id |-> tpl.id, type |-> tpl.type, level |-> 2, baseYield |-> tpl.baseYield,
   timer |-> null]

\* an object without an id
namelessSlot == [type |-> "tomato", level |-> 9]

\* a slot of an id the template does not have
strangerSlot == [playedSlot(createInitialState.crops[1]) EXCEPT !.id = UnknownId]

\* a slot with a field the schema does not know, and of another type and
\* yield than the template's slot of that id
decoratedSlot(tpl) ==
  [skin |-> "gold"] @@ [playedSlot(tpl) EXCEPT !.type = "corn", !.baseYield = 7]

RawCrops ==
  LET t == createInitialState.crops IN
  { Absent,
    Present(<<>>),
    Present(t),
    Present(<<playedSlot(t[1])>>),
    Present(<<legacySlot(t[1]), namelessSlot, null, playedSlot(t[2])>>),
    Present(<<playedSlot(t[1]), legacySlot(t[1])>>),
    Present(<<decoratedSlot(t[6]), strangerSlot, legacySlot(t[1]), playedSlot(t[1])>>) }

RawAnimals ==
  LET t == createInitialState.animals IN
  { Absent,
    Present(t),
    Present(<<playedSlot(t[1])>>),
    Present(<<null, legacySlot(t[3]), playedSlot(t[2]), legacySlot(t[2])>>) }

RawResources ==
  LET base == createInitialState.resources IN
  { Absent,
    Present(base),
    Present([coins |-> 7, tomato |-> 2]),
    Present([coins |-> NotANumber, gems |-> 3, feed |-> NotANumber,
             milk |-> NotANumber, egg |-> 4]),
    Present([stars |-> 9] @@ [base EXCEPT !.coins = 250, !.wool = 6]) }

\* level, revision and the referrer fields of the stored value
RawTops ==
  { [level |-> 1],
    [level |-> 4, revision |-> 7],
    [level |-> 2, revision |-> 3, referrerId |-> "u1", referrerUsername |-> "@u1"],
    [referrerId |-> "u1"] }

RawStates ==
  { Field("crops", c) @@ Field("animals", a) @@ Field("resources", r) @@ t :
      c \in RawCrops, a \in RawAnimals, r \in RawResources, t \in RawTops }

InitRepair ==
  /\ state \in RawStates
  /\ latestStateRef = state
  /\ dirty = FALSE
  /\ syncTimeout = FALSE
  /\ now = 0
  /\ net = {}
  /\ server = NoServer
  /\ localSeq = 0

\* setState(ensureExtendedState(parsed))
Repair ==
  /\ state' = ensureExtendedState(state)
  /\ latestStateRef' = ensureExtendedState(state)
  /\ UNCHANGED <<dirty, syncTimeout, now, net, server, localSeq>>

NextRepair == Repair

SpecRepair == InitRepair /\ [][NextRepair]_vars

-----------------------------------------------------------------------------
(* C13 *)

\* C13: ensureExtendedState is idempotent: for any input state, with missing,
\* extra, duplicated or malformed slots and missing or non-numeric resource
\* fields, repairing the repaired state gives the repaired state.
C13_RepairIdempotent ==
  ensureExtendedState(ensureExtendedState(state)) = ensureExtendedState(state)

\* C13 witness: a repaired state that no stored value equals, and that a
\* further repair leaves as it is
C13_Witness ==
  /\ state \notin RawStates
  /\ ensureExtendedState(state) = state
  /\ state.crops[1].harvestsSinceLevel = 2

-----------------------------------------------------------------------------
(* C14 *)

\* C14: ensureExtendedState(createInitialState()) equals createInitialState():
\* the same 6 crop slots and 6 animal slots with identical fields and the
\* same resources (coins 100, gems 5, feed 5, every good 0).
C14_InitialStateUnchanged ==
  state = createInitialState =>
    /\ ensureExtendedState(state) = createInitialState
    /\ Len(ensureExtendedState(state).crops) = 6
    /\ Len(ensureExtendedState(state).animals) = 6
    /\ ensureExtendedState(state).resources.coins = 100
    /\ ensureExtendedState(state).resources.gems = 5
    /\ ensureExtendedState(state).resources.feed = 5
    /\ \A g \in Goods : ensureExtendedState(state).resources[g] = 0

\* C14 witness: the state is the initial state (before and after its repair)
C14_Witness ==
  /\ state = createInitialState
  /\ latestStateRef = createInitialState

-----------------------------------------------------------------------------
(* C15 *)

\* the resources of the stored value, null when it has none
RawResourcesOf(s) == Get(s, "resources", null)

\* the default of a resource field: coins 100, gems 5, feed 5, a good 0
DefaultOf(f) ==
  CASE f = "coins" -> 100
    [] f = "gems" -> 5
    [] f = "feed" -> 5
    [] OTHER -> 0

-----------------------------------------------------------------------------
(* C16 *)

\* the stored collection, or the template collection when the stored value
\* has no such array
StoredOrTemplate(s, coll) ==
  IF coll \in DOMAIN s THEN s[coll] ELSE createInitialState[coll]

\* the positions of the structurally valid entries of arr that carry the id
MatchesOf(arr, id) ==
  {k \in 1..Len(arr) : arr[k] # null /\ "id" \in DOMAIN arr[k] /\ arr[k].id = id}

\* out has the fields of ex over those of tpl, and harvestsSinceLevel is
\* that of ex, or 0
MergedFrom(out, tpl, ex) ==
  /\ DOMAIN out = DOMAIN tpl \cup DOMAIN ex \cup {"harvestsSinceLevel"}
  /\ \A f \in DOMAIN out \ {"harvestsSinceLevel"} :
       out[f] = IF f \in DOMAIN ex THEN ex[f] ELSE tpl[f]
  /\ out.harvestsSinceLevel =
       IF "harvestsSinceLevel" \in DOMAIN ex THEN ex.harvestsSinceLevel ELSE 0

\* one slot per template id, in template order, merged or added
CollectionRepaired(s, coll) ==
  LET out == ensureExtendedState(s)[coll]
      tpl == createInitialState[coll]
      in == StoredOrTemplate(s, coll)
  IN
  /\ Len(out) = 6
  /\ Len(tpl) = 6
  /\ \A j \in 1..6 :
       /\ out[j].id = tpl[j].id
       /\ IF MatchesOf(in, tpl[j].id) = {}
          THEN out[j] = tpl[j]
          ELSE \E k \in MatchesOf(in, tpl[j].id) : MergedFrom(out[j], tpl[j], in[k])
  /\ coll \notin DOMAIN s => out = tpl

\* C16: ensureExtendedState returns exactly one crop slot per template crop
\* id (c1..c6) and one animal slot per template animal id (a1..a6), in
\* template order; a template slot with a structurally valid matching input
\* slot takes the input slot's fields over the template's and is backfilled
\* from the template; one without is added as in the template;
\* harvestsSinceLevel is the input slot's or 0; a collection that is no array
\* falls back to the template collection.
C16_SlotsRepaired ==
  /\ CollectionRepaired(state, "crops")
  /\ CollectionRepaired(state, "animals")
  /\ [j \in 1..6 |-> ensureExtendedState(state).crops[j].id] =
       <<"c1", "c2", "c3", "c4", "c5", "c6">>
  /\ [j \in 1..6 |-> ensureExtendedState(state).animals[j].id] =
       <<"a1", "a2", "a3", "a4", "a5", "a6">>

\* C16 witness: the repaired image of a collection that held a legacy c1, a
\* played c1, a decorated c6 and a slot of an unknown id: c1 and c6 carry the
\* stored fields, c2..c5 were added from the template; the legacy a3 was
\* backfilled.
C16_Witness ==
  /\ state \notin RawStates
  /\ state.crops[1].level = 3
  /\ state.crops[2] = createInitialState.crops[2]
  /\ state.crops[6].type = "corn"
  /\ "skin" \in DOMAIN state.crops[6]
  /\ state.animals[3].level = 2
  /\ state.animals[3].unlocked = FALSE
  /\ state.animals[3].gemUpgradeLevel = 0

-----------------------------------------------------------------------------
(* C17 *)

\* the top-level fields that are neither resources nor a slot collection
OtherFields(s) == DOMAIN s \ {"resources", "crops", "animals"}

\* C17: ensureExtendedState leaves every top-level field other than
\* resources, crops and animals (level, revision, referrerId,
\* referrerUsername) equal to its value in the input state.
C17_OtherFieldsKept ==
  LET out == ensureExtendedState(state) IN
  /\ OtherFields(out) = OtherFields(state)
  /\ \A f \in OtherFields(state) : out[f] = state[f]
  /\ \A f \in {"level", "revision", "referrerId", "referrerUsername"} :
       /\ f \in DOMAIN state <=> f \in DOMAIN out
       /\ f \in DOMAIN state => out[f] = state[f]

\* C17 witness: a repaired state that still has the stored level, revision
\* and referrer, its resources and slots having been rebuilt
C17_Witness ==
  /\ state \notin RawStates
  /\ {"level", "revision", "referrerId", "referrerUsername"} \subseteq DOMAIN state
  /\ state.level = 2
  /\ state.revision = 3
  /\ state.referrerId = "u1"
  /\ state.referrerUsername = "@u1"
  /\ state.resources.coins = 7
  /\ state.resources.gems = 5

-----------------------------------------------------------------------------
(* C18 *)

\* the counters of a slot after one completed cycle, from those before it
LeveledFrom(before, after) ==
  LET h == Get(before, "harvestsSinceLevel", 0) IN
  /\ after.harvestsSinceLevel = (h + 1) % 5
  /\ after.level = before.level + ((h + 1) \div 5)
  /\ h = 3 => after.harvestsSinceLevel = 4 /\ after.level = before.level
  /\ h = 4 => after.harvestsSinceLevel = 0 /\ after.level = before.level + 1
  /\ h < 4 => after.harvestsSinceLevel = h + 1 /\ after.level = before.level

\* C18: a successful harvestCrop or collectAnimalProduct on a slot with
\* harvestsSinceLevel = h sets harvestsSinceLevel to (h+1) mod 5 and adds
\* floor((h+1)/5) to the slot's level (h=3: 4, level unchanged; h=4: 0,
\* level+1); harvestsSinceLevel of every slot stays in 0..4.
C18_LevelEveryFifthHarvest ==
  /\ \A slot \in Slots(state) : slot.harvestsSinceLevel \in 0..4
  /\ \A id \in AllIds :
       LET h == harvestCrop(state, id, now)
           c == collectAnimalProduct(state, id, now)
       IN
       /\ h # state =>
            \A j \in DOMAIN state.crops :
              IF state.crops[j].id = id
              THEN LeveledFrom(state.crops[j], h.crops[j])
              ELSE h.crops[j] = state.crops[j]
       /\ c # state =>
            \A j \in DOMAIN state.animals :
              IF state.animals[j].id = id
              THEN LeveledFrom(state.animals[j], c.animals[j])
              ELSE c.animals[j] = state.animals[j]

\* C18 witness: c1, which had 4 harvests at level 1, has been harvested:
\* level 2 and the count back at 0
C18_Witness ==
  /\ state.crops[1].level = 2
  /\ state.crops[1].harvestsSinceLevel = 0
  /\ state.crops[1].timer = null
  /\ state.resources.tomato = 3

-----------------------------------------------------------------------------
(* C19 *)

\* the resource field a slot type produces
ProductOf(type) ==
  CASE type \in {"tomato", "cucumber", "corn", "watermelon", "apple"} -> type
    [] type = "cow" -> "milk"
    [] type = "chicken" -> "egg"
    [] type = "goat" -> "cheese"
    [] type = "sheep" -> "wool"
    [] type = "pig" -> "meat"
    [] type = "goose" -> "feathers"

\* baseYield * 2^gemUpgradeLevel, the gem level being 0, 1 or 2
YieldOf(slot) ==
  CASE Get(slot, "gemUpgradeLevel", 0) = 0 -> slot.baseYield
    [] Get(slot, "gemUpgradeLevel", 0) = 1 -> slot.baseYield * 2
    [] Get(slot, "gemUpgradeLevel", 0) = 2 -> slot.baseYield * 4

\* after credits the yield of slot to its product and nothing else
CreditedOnly(before, after, slot) ==
  /\ DOMAIN after = DOMAIN before
  /\ after[ProductOf(slot.type)] = before[ProductOf(slot.type)] + YieldOf(slot)
  /\ \A f \in DOMAIN before \ {ProductOf(slot.type)} : after[f] = before[f]

\* C19: a successful harvest/collect credits exactly
\* baseYield * 2^gemUpgradeLevel units to the one resource field of the
\* slot's type, clears the slot's timer and alters no other resource field.
C19_YieldCredited ==
  \A id \in AllIds :
    LET h == harvestCrop(state, id, now)
        c == collectAnimalProduct(state, id, now)
    IN
    /\ h # state =>
         /\ h.animals = state.animals
         /\ \A j \in DOMAIN state.crops :
              state.crops[j].id = id =>
                /\ h.crops[j].timer = null
                /\ CreditedOnly(state.resources, h.resources, state.crops[j])
    /\ c # state =>
         /\ c.crops = state.crops
         /\ \A j \in DOMAIN state.animals :
              state.animals[j].id = id =>
                /\ c.animals[j].timer = null
                /\ CreditedOnly(state.resources, c.resources, state.animals[j])

\* C19 witness: c1 at gem level 2 (base yield 3) has been planted, has
\* ripened and has been harvested: 12 tomatoes, timer cleared
C19_Witness ==
  /\ state.crops[1].gemUpgradeLevel = 2
  /\ state.crops[1].timer = null
  /\ state.crops[1].harvestsSinceLevel = 1
  /\ state.resources.tomato = 12
  /\ state.resources.coins = 95

-----------------------------------------------------------------------------
(* C20 *)

\* the goods held, all fields together
GoodsHeld(s) == [g \in Goods |-> s.resources[g]]

\* what a step does to one slot: a and b are the slot before and after it
\*  - its timer is cleared (a harvest) only when the timer's duration has
\*    elapsed on the clock since startedAt, and the product is credited;
\*  - its timer is set (a plant or a feed) with startedAt = now and a positive
\*    duration, and the plant is paid in coins or feed;
\*  - its running timer is altered (a boost) only against gems, the duration
\*    staying as planted.
CycleStep(a, b) ==
  /\ (a.timer # null /\ b.timer = null) =>
       /\ now - a.timer.startedAt >= a.timer.durationMs
       /\ state'.resources[ProductOf(a.type)] =
            state.resources[ProductOf(a.type)] + YieldOf(a)
  /\ (a.timer = null /\ b.timer # null) =>
       /\ b.timer.startedAt = now
       /\ b.timer.durationMs > 0
       /\ \/ state'.resources.coins < state.resources.coins
          \/ state'.resources.feed < state.resources.feed
       /\ GoodsHeld(state') = GoodsHeld(state)
  /\ (a.timer # null /\ b.timer # null /\ b.timer # a.timer) =>
       /\ state'.resources.gems < state.resources.gems
       /\ b.timer.durationMs = a.timer.durationMs
       /\ GoodsHeld(state') = GoodsHeld(state)

\* the slots whose timer the step clears
Harvested ==
  {j \in DOMAIN state.crops :
     state.crops[j].timer # null /\ state'.crops[j].timer = null}
  \cup
  {6 + j : j \in {k \in DOMAIN state.animals :
     state.animals[k].timer # null /\ state'.animals[k].timer = null}}

\* C20: produce is credited only for a completed production cycle: a good
\* is credited only by a step that clears the timer of a slot, that timer was
\* set by a successful plant/feed of that slot at the clock's value then, and
\* at the harvest either its duration has elapsed on the clock or a paid
\* boost moved its start; the harvest clears the timer, so one plant yields
\* at most one harvest.
C20_HarvestOnlyAfterCycle ==
  [][/\ \A j \in DOMAIN state.crops : CycleStep(state.crops[j], state'.crops[j])
     /\ \A j \in DOMAIN state.animals : CycleStep(state.animals[j], state'.animals[j])
     /\ (\E g \in Goods : state'.resources[g] > state.resources[g]) =>
          Cardinality(Harvested) = 1]_vars

\* C20 witness: c1 was planted at 0, three minutes have passed on the clock,
\* no gem was spent, and c1 has been harvested
C20_Witness ==
  /\ now = TickMs
  /\ state.crops[1].timer = null
  /\ state.crops[1].harvestsSinceLevel = 1
  /\ state.crops[1].gemUpgradeLevel = 0
  /\ state.resources.tomato = 3
  /\ state.resources.gems = 5
  /\ state.resources.coins = 95

-----------------------------------------------------------------------------
(* C21 *)

\* the base duration of a slot type, in minutes
BaseMinutesOf(type) ==
  CASE type = "tomato" -> 3
    [] type = "cucumber" -> 5
    [] type = "corn" -> 6
    [] type = "watermelon" -> 8
    [] type = "apple" -> 10
    [] type = "cow" -> 10
    [] type = "chicken" -> 8
    [] type = "goat" -> 9
    [] type = "sheep" -> 9
    [] type = "pig" -> 12
    [] type = "goose" -> 7

\* 2^g for the gem levels there are
TwoTo(g) == CASE g = 0 -> 1 [] g = 1 -> 2 [] g = 2 -> 4

\* the timer is the base duration divided by 2^g
ScaledTimer(slot, timer) ==
  /\ timer # null
  /\ timer.durationMs * TwoTo(slot.gemUpgradeLevel) = BaseMinutesOf(slot.type) * 60000
  /\ slot.gemUpgradeLevel = 2 => timer.durationMs * 4 = BaseMinutesOf(slot.type) * 60000

\* the product of the slot grew by baseYield * 2^g
ScaledYield(slot, before, after) ==
  /\ after[ProductOf(slot.type)] - before[ProductOf(slot.type)] =
       slot.baseYield * TwoTo(slot.gemUpgradeLevel)
  /\ slot.gemUpgradeLevel = 2 =>
       after[ProductOf(slot.type)] = before[ProductOf(slot.type)] + slot.baseYield * 4

\* C21: a slot planted/fed at gemUpgradeLevel g receives a timer whose
\* durationMs is baseDurationMinutes * 60000 / 2^g, and a harvest at
\* gemUpgradeLevel g yields baseYield * 2^g; at g = 2 that is baseYield * 4
\* per cycle in a quarter of the base duration.
C21_GemScaling ==
  \A id \in AllIds :
    LET p == plantCrop(state, id, now)
        f == feedAnimal(state, id, now)
        h == harvestCrop(state, id, now)
        c == collectAnimalProduct(state, id, now)
    IN
    /\ p # state => \A j \in DOMAIN state.crops :
         state.crops[j].id = id => ScaledTimer(state.crops[j], p.crops[j].timer)
    /\ f # state => \A j \in DOMAIN state.animals :
         state.animals[j].id = id => ScaledTimer(state.animals[j], f.animals[j].timer)
    /\ h # state => \A j \in DOMAIN state.crops :
         state.crops[j].id = id =>
           ScaledYield(state.crops[j], state.resources, h.resources)
    /\ c # state => \A j \in DOMAIN state.animals :
         state.animals[j].id = id =>
           ScaledYield(state.animals[j], state.resources, c.resources)

\* C21 witness: c1 at gem level 2 has given 12 tomatoes (4 * 3) and has been
\* planted again, for 45 seconds (a quarter of 3 minutes)
C21_Witness ==
  /\ state.crops[1].gemUpgradeLevel = 2
  /\ state.resources.tomato = 12
  /\ state.crops[1].timer # null
  /\ state.crops[1].timer.durationMs = 45000
  /\ state.crops[1].timer.startedAt = TickMs

-----------------------------------------------------------------------------
(* C22 *)

\* the timer of a slot started now: startedAt = now, the type's base
\* duration scaled by the gem level
TimerStartedNow(slot) ==
  [startedAt |-> now,
   durationMs |-> (BaseMinutesOf(slot.type) * 60000) \div TwoTo(slot.gemUpgradeLevel)]

\* C22: plantCrop on an idle crop slot with coins >= cost debits exactly the
\* type's cost (tomato 5, cucumber 5, corn 10, watermelon 15, apple 20) from
\* coins; feedAnimal on an idle animal slot with feed >= 1 debits exactly 1
\* feed; each sets the slot's timer to startedAt = now with the type's base
\* duration scaled by the gem level, and changes no other resource (and no
\* other slot).
C22_StartOfProduction ==
  /\ \A j \in DOMAIN state.crops :
       LET slot == state.crops[j]
           p == plantCrop(state, slot.id, now)
       IN (slot.timer = null /\ state.resources.coins >= PlantCostOf(slot.type)) =>
            /\ p.resources =
                 [state.resources EXCEPT !.coins = @ - PlantCostOf(slot.type)]
            /\ p.crops = [state.crops EXCEPT ![j].timer = TimerStartedNow(slot)]
            /\ p.animals = state.animals
  /\ \A j \in DOMAIN state.animals :
       LET slot == state.animals[j]
           f == feedAnimal(state, slot.id, now)
       IN (slot.timer = null /\ state.resources.feed >= 1) =>
            /\ f.resources = [state.resources EXCEPT !.feed = @ - 1]
            /\ f.animals = [state.animals EXCEPT ![j].timer = TimerStartedNow(slot)]
            /\ f.crops = state.crops

\* C22 witness: corn has been planted for 10 coins and the cow fed, after
\* the clock had advanced
C22_Witness ==
  /\ state.resources.coins = 90
  /\ state.resources.feed = 4
  /\ state.crops[4].timer = [startedAt |-> TickMs, durationMs |-> 360000]
  /\ state.animals[1].timer = [startedAt |-> TickMs, durationMs |-> 600000]

-----------------------------------------------------------------------------
(* C23 *)

\* the slot's timer is running: present and not ready
Running(slot) == Busy(slot) /\ ~Ready(slot)

\* the timer after a boost: same duration, started a full duration ago
BoostedTimer(timer) ==
  [startedAt |-> now - timer.durationMs, durationMs |-> timer.durationMs]

\* C23: for a slot whose timer is present and not ready, the boost cost is
\* max(1, ceil(remainingMs / 60000)) gems (durationMs 300000 with 120000
\* elapsed costs 3); if gems >= cost, boost debits exactly that cost from
\* gems, keeps durationMs and rewrites startedAt to now - durationMs, so that
\* the timer is ready at once and the slot can be harvested; no other
\* resource (and no other slot) changes.
C23_Boost ==
  /\ boostGemCost([startedAt |-> 0, durationMs |-> 300000], 120000) = 3
  /\ boostGemCost([startedAt |-> 0, durationMs |-> 90000], 0) = 2
  /\ boostGemCost([startedAt |-> 0, durationMs |-> 300000], 299999) = 1
  /\ \A j \in DOMAIN state.crops :
       LET slot == state.crops[j]
           b == boostCrop(state, slot.id, now)
       IN (Running(slot) /\ state.resources.gems >= BoostPriceOf(slot)) =>
            /\ b.resources = [state.resources EXCEPT !.gems = @ - BoostPriceOf(slot)]
            /\ b.crops = [state.crops EXCEPT ![j].timer = BoostedTimer(slot.timer)]
            /\ b.animals = state.animals
            /\ now - b.crops[j].timer.startedAt >= b.crops[j].timer.durationMs
            /\ harvestCrop(b, slot.id, now).crops[j].timer = null
  /\ \A j \in DOMAIN state.animals :
       LET slot == state.animals[j]
           b == boostAnimal(state, slot.id, now)
       IN (Running(slot) /\ state.resources.gems >= BoostPriceOf(slot)) =>
            /\ b.resources = [state.resources EXCEPT !.gems = @ - BoostPriceOf(slot)]
            /\ b.animals = [state.animals EXCEPT ![j].timer = BoostedTimer(slot.timer)]
            /\ b.crops = state.crops
            /\ now - b.animals[j].timer.startedAt >= b.animals[j].timer.durationMs
            /\ collectAnimalProduct(b, slot.id, now).animals[j].timer = null

\* C23 witness: the chicken was fed at 0 (8 minutes), three minutes passed,
\* and the remaining 5 minutes were bought for 5 of the 65 gems
C23_Witness ==
  /\ now = TickMs
  /\ state.resources.gems = 60
  /\ state.animals[2].timer = [startedAt |-> TickMs - 480000, durationMs |-> 480000]

-----------------------------------------------------------------------------
(* C24 *)

\* C24: upgradeCrop/upgradeAnimal on an existing slot at level L with
\* coins >= L * 50 debits exactly L * 50 coins and sets the slot's level to
\* L + 1, leaving timer, gemUpgradeLevel, harvestsSinceLevel and all other
\* resources (and slots) unchanged; with coins < L * 50 the state is
\* unchanged.
C24_PaidUpgrade ==
  /\ \A j \in DOMAIN state.crops :
       LET slot == state.crops[j]
           u == upgradeCrop(state, slot.id)
       IN IF state.resources.coins >= slot.level * 50
          THEN /\ u.resources = [state.resources EXCEPT !.coins = @ - slot.level * 50]
               /\ u.crops = [state.crops EXCEPT ![j].level = slot.level + 1]
               /\ u.crops[j].timer = slot.timer
               /\ u.crops[j].gemUpgradeLevel = slot.gemUpgradeLevel
               /\ u.crops[j].harvestsSinceLevel = slot.harvestsSinceLevel
               /\ u.animals = state.animals
          ELSE u = state
  /\ \A j \in DOMAIN state.animals :
       LET slot == state.animals[j]
           u == upgradeAnimal(state, slot.id)
       IN IF state.resources.coins >= slot.level * 50
          THEN /\ u.resources = [state.resources EXCEPT !.coins = @ - slot.level * 50]
               /\ u.animals = [state.animals EXCEPT ![j].level = slot.level + 1]
               /\ u.animals[j].timer = slot.timer
               /\ u.animals[j].gemUpgradeLevel = slot.gemUpgradeLevel
               /\ u.animals[j].harvestsSinceLevel = slot.harvestsSinceLevel
               /\ u.crops = state.crops
          ELSE u = state

\* C24 witness: with 100 coins c1 was planted (5) and upgraded from level 1
\* (50); the 45 coins left do not pay for level 2 (100): the timer kept
\* running through the upgrade
C24_Witness ==
  /\ state.resources.coins = 45
  /\ state.crops[1].level = 2
  /\ state.crops[1].timer # null
  /\ state.crops[1].harvestsSinceLevel = 0
  /\ upgradeCrop(state, "c1") = state

-----------------------------------------------------------------------------
(* The progression: gem upgrades and unlocks, from accounts at several      *)
(* stages of it (the remote store keeps the account between sessions).      *)

\* the account whose crop slots have the gem levels cg and whose animal
\* slots have the gem levels ag, the first cu crop slots and the first au
\* animal slots being unlocked
Account(cg, cu, ag, au, gems) ==
  LET s == createInitialState IN
  [s EXCEPT
     !.resources.gems = gems,
     !.crops = [j \in DOMAIN s.crops |->
                  [s.crops[j] EXCEPT !.gemUpgradeLevel = cg[j], !.unlocked = (j <= cu)]],
     !.animals = [j \in DOMAIN s.animals |->
                    [s.animals[j] EXCEPT !.gemUpgradeLevel = ag[j], !.unlocked = (j <= au)]]]

ProgressStates ==
  { createInitialState,
    \* two of the three starter crops at gem level 2
    Account(<<2, 2, 1, 0, 0, 0>>, 3, <<1, 1, 0, 0, 0, 0>>, 2, 80),
    \* corn open, the chicken not yet upgraded
    Account(<<2, 2, 2, 1, 0, 0>>, 4, <<1, 0, 0, 0, 0, 0>>, 2, 100),
    \* watermelon and goat open
    Account(<<2, 2, 2, 2, 1, 0>>, 5, <<1, 1, 1, 0, 0, 0>>, 3, 150),
    \* pig open
    Account(<<2, 2, 2, 2, 2, 1>>, 6, <<1, 1, 2, 2, 1, 0>>, 5, 100),
    \* everything ready for the goose but the gems
    Account(<<2, 2, 2, 2, 2, 2>>, 6, <<1, 1, 2, 2, 2, 0>>, 5, 29) }

InitProgress ==
  /\ state \in ProgressStates
  /\ latestStateRef = state
  /\ dirty = FALSE
  /\ syncTimeout = FALSE
  /\ now = 0
  /\ net = {}
  /\ server = NoServer
  /\ localSeq = 0

AllCropIds == {"c1", "c2", "c3", "c4", "c5", "c6"}

AllAnimalIds == {"a1", "a2", "a3", "a4", "a5", "a6"}

NextProgress ==
  \/ \E id \in AllCropIds \cup {UnknownId} :
       \/ StepsLeft(MaxProgressSteps) /\ handleGemUpgradeCrop(id)
       \/ StepsLeft(MaxProgressSteps) /\ handleUnlockCrop(id)
  \/ \E id \in AllAnimalIds \cup {UnknownId} :
       \/ StepsLeft(MaxProgressSteps) /\ handleGemUpgradeAnimal(id)
       \/ StepsLeft(MaxProgressSteps) /\ handleUnlockAnimal(id)

SpecProgress == InitProgress /\ [][NextProgress]_vars

-----------------------------------------------------------------------------
(* C25 *)

\* C25: a successful gem-upgrade (slot exists, gemUpgradeLevel below the type
\* maximum, gems >= price) debits exactly the price from gems (20 for any
\* crop; 30 for cow, 20 for chicken, 60 for goat, sheep, pig, goose),
\* increases that slot's gemUpgradeLevel by exactly 1, and changes no other
\* slot and no other resource.
C25_GemUpgrade ==
  /\ \A j \in DOMAIN state.crops :
       LET slot == state.crops[j]
           g == gemUpgradeCrop(state, slot.id)
       IN (slot.gemUpgradeLevel < CropGemMaxOf(slot.type) /\ state.resources.gems >= 20) =>
            /\ g.resources = [state.resources EXCEPT !.gems = @ - 20]
            /\ g.crops = [state.crops EXCEPT ![j].gemUpgradeLevel = @ + 1]
            /\ g.animals = state.animals
  /\ \A j \in DOMAIN state.animals :
       LET slot == state.animals[j]
           g == gemUpgradeAnimal(state, slot.id)
       IN (/\ slot.gemUpgradeLevel < AnimalGemMaxOf(slot.type)
           /\ state.resources.gems >= AnimalGemPriceOf(slot.type)) =>
            /\ g.resources =
                 [state.resources EXCEPT !.gems = @ - AnimalGemPriceOf(slot.type)]
            /\ g.animals = [state.animals EXCEPT ![j].gemUpgradeLevel = @ + 1]
            /\ g.crops = state.crops

\* C25 witness: from 150 gems the goat has gone from gem level 1 to 2 (60)
\* and the watermelon from 1 to 2 (20)
C25_Witness ==
  /\ state.resources.gems = 70
  /\ state.animals[3].gemUpgradeLevel = 2
  /\ state.crops[5].gemUpgradeLevel = 2
  /\ Rev(state) = 2

-----------------------------------------------------------------------------
(* C26, C27 *)

\* gem-upgrade level of the crop with this id, of the animal of this type
CropGem(s, id) == LET c == CHOOSE c \in CropSlotsWith(s, id) : TRUE IN c.gemUpgradeLevel

AnimalGem(s, type) ==
  LET a == CHOOSE a \in {s.animals[j] : j \in DOMAIN s.animals} : a.type = type
  IN a.gemUpgradeLevel

StartersDone(s) == CropGem(s, "c1") >= 2 /\ CropGem(s, "c2") >= 2 /\ CropGem(s, "c3") >= 2

\* the unlock predicate of a slot type, as the gating tree states it
UnlockPredicate(s, type) ==
  CASE type = "corn" -> StartersDone(s)
    [] type = "watermelon" -> CropGem(s, "c4") >= 2
    [] type = "apple" -> CropGem(s, "c5") >= 2
    [] type = "goat" ->
         StartersDone(s) /\ AnimalGem(s, "cow") >= 1 /\ AnimalGem(s, "chicken") >= 1
    [] type = "sheep" -> AnimalGem(s, "goat") >= 2
    [] type = "pig" -> AnimalGem(s, "sheep") >= 2
    [] type = "goose" -> AnimalGem(s, "pig") >= 2
    [] OTHER -> FALSE

UnlockAllowed(s, slot) ==
  ~slot.unlocked /\ s.resources.gems >= 30 /\ UnlockPredicate(s, slot.type)

\* C26: an unlock succeeds only on a locked slot with gems >= 30 whose unlock
\* predicate holds; it then debits exactly 30 gems, sets unlocked = true and
\* changes nothing else. When one of the three conditions fails, or the id is
\* unknown, the state is unchanged; a second unlock of the same slot is
\* therefore free of charge.
C26_Unlock ==
  /\ \A j \in DOMAIN state.crops :
       LET slot == state.crops[j]
           u == unlockCrop(state, slot.id)
       IN /\ UnlockAllowed(state, slot) =>
               u = [state EXCEPT !.resources.gems = @ - 30,
                                 !.crops[j].unlocked = TRUE]
          /\ ~UnlockAllowed(state, slot) => u = state
          /\ unlockCrop(u, slot.id) = u
  /\ \A j \in DOMAIN state.animals :
       LET slot == state.animals[j]
           u == unlockAnimal(state, slot.id)
       IN /\ UnlockAllowed(state, slot) =>
               u = [state EXCEPT !.resources.gems = @ - 30,
                                 !.animals[j].unlocked = TRUE]
          /\ ~UnlockAllowed(state, slot) => u = state
          /\ unlockAnimal(u, slot.id) = u
  /\ unlockCrop(state, UnknownId) = state
  /\ unlockAnimal(state, UnknownId) = state

\* C26 witness: the account that had two of the three starting beds at gem
\* level 2 and 80 gems has upgraded the third (20) and unlocked the corn (30)
C26_Witness ==
  /\ state.crops[4].unlocked
  /\ state.crops[3].gemUpgradeLevel = 2
  /\ state.crops[4].gemUpgradeLevel = 0
  /\ state.resources.gems = 30
  /\ Rev(state) = 2

Unlocked(s, type) == \E slot \in Slots(s) : slot.type = type /\ slot.unlocked

\* C27: corn unlocked implies c1, c2, c3 at gem level >= 2; watermelon
\* unlocked implies corn at gem level >= 2; apple unlocked implies watermelon
\* at gem level >= 2; goat unlocked implies c1, c2, c3 at gem level >= 2 and
\* cow and chicken at gem level >= 1; sheep unlocked implies goat at gem
\* level >= 2; pig implies sheep >= 2; goose implies pig >= 2.
C27_ForwardProgression ==
  /\ Unlocked(state, "corn") => StartersDone(state)
  /\ Unlocked(state, "watermelon") => CropGem(state, "c4") >= 2
  /\ Unlocked(state, "apple") => CropGem(state, "c5") >= 2
  /\ Unlocked(state, "goat") =>
       /\ StartersDone(state)
       /\ AnimalGem(state, "cow") >= 1
       /\ AnimalGem(state, "chicken") >= 1
  /\ Unlocked(state, "sheep") => AnimalGem(state, "goat") >= 2
  /\ Unlocked(state, "pig") => AnimalGem(state, "sheep") >= 2
  /\ Unlocked(state, "goose") => AnimalGem(state, "pig") >= 2

\* C27 witness: from 150 gems the goat went to gem level 2 (60) and the sheep
\* was unlocked (30)
C27_Witness ==
  /\ state.animals[4].unlocked
  /\ state.animals[3].gemUpgradeLevel = 2
  /\ state.resources.gems = 60
  /\ Rev(state) = 2

-----------------------------------------------------------------------------
(* C28 *)

\* C28: while a slot's unlocked flag is false, no plant/feed, harvest/collect,
\* boost, upgrade or gem-upgrade addressed to that slot changes the slot or
\* any resource.
C28_LockedSlotsInert ==
  /\ \A j \in DOMAIN state.crops :
       LET id == state.crops[j].id IN
       ~state.crops[j].unlocked =>
         /\ SameGame(plantCrop(state, id, now), state)
         /\ SameGame(harvestCrop(state, id, now), state)
         /\ SameGame(boostCrop(state, id, now), state)
         /\ SameGame(upgradeCrop(state, id), state)
         /\ SameGame(gemUpgradeCrop(state, id), state)
  /\ \A j \in DOMAIN state.animals :
       LET id == state.animals[j].id IN
       ~state.animals[j].unlocked =>
         /\ SameGame(feedAnimal(state, id, now), state)
         /\ SameGame(collectAnimalProduct(state, id, now), state)
         /\ SameGame(boostAnimal(state, id, now), state)
         /\ SameGame(upgradeAnimal(state, id), state)
         /\ SameGame(gemUpgradeAnimal(state, id), state)

-----------------------------------------------------------------------------
(* The market: the sale of the produce, the feed pack and the two exchanges  *)
(* from accounts with balances on both sides of every threshold.            *)

NoStock == [g \in Goods |-> 0]

\* the stocks of produce an account comes to the market with
Stocks ==
  { NoStock,
    [NoStock EXCEPT !.tomato = 10, !.milk = 2],
    [g \in Goods |-> 1],
    [NoStock EXCEPT !.cucumber = 3, !.corn = 2, !.wool = 1, !.meat = 2] }

MarketCoins == {0, 19, 20, 100, 99999, 100000}

MarketGems == {5, 9, 10}

MarketStates ==
  { [createInitialState EXCEPT
       !.resources = [f \in DOMAIN @ |->
                        IF f = "coins" THEN c
                        ELSE IF f = "gems" THEN g
                        ELSE IF f \in Goods THEN st[f]
                        ELSE @[f]]] :
      c \in MarketCoins, g \in MarketGems, st \in Stocks }

InitMarket ==
  /\ state \in MarketStates
  /\ latestStateRef = state
  /\ dirty = FALSE
  /\ syncTimeout = FALSE
  /\ now = 0
  /\ net = {}
  /\ server = NoServer
  /\ localSeq = 0

NextMarket ==
  \/ StepsLeft(MaxMarketSteps) /\ handleSell
  \/ StepsLeft(MaxMarketSteps) /\ handleBuyFeed
  \/ StepsLeft(MaxMarketSteps) /\ handleExchangeGemsToCoins
  \/ StepsLeft(MaxMarketSteps) /\ handleExchangeCoinsToGems

SpecMarket == InitMarket /\ [][NextMarket]_vars

-----------------------------------------------------------------------------
(* C29 *)

\* round(basePrice * 1.25) for base prices 3, 4, 5, 6, 6, 9, 6, 11, 13, 4, 7
SalePriceOf(good) ==
  CASE good = "tomato" -> 4
    [] good = "cucumber" -> 5
    [] good = "corn" -> 6
    [] good = "watermelon" -> 8
    [] good = "apple" -> 8
    [] good = "milk" -> 11
    [] good = "egg" -> 8
    [] good = "cheese" -> 14
    [] good = "meat" -> 16
    [] good = "feathers" -> 5
    [] good = "wool" -> 9

RECURSIVE IncomeOver(_, _)
IncomeOver(r, goods) ==
  IF goods = {} THEN 0
  ELSE LET g == CHOOSE g \in goods : TRUE
       IN r[g] * SalePriceOf(g) + IncomeOver(r, goods \ {g})

\* C29: sellProduce credits coins with the sum over the 11 goods of
\* quantity * round(basePrice * 1.25), sets the 11 goods to 0 and leaves gems,
\* feed and everything else as they were (tomato 10 and milk 2 bring exactly
\* 62 coins); when the income is 0 the state is unchanged.
C29_SellProduce ==
  LET r == state.resources
      income == IncomeOver(r, Goods)
      sold == sellProduce(state)
  IN
  /\ Cardinality(Goods) = 11
  /\ income = 0 => sold = state
  /\ income > 0 =>
       sold = [state EXCEPT !.resources =
                 [f \in DOMAIN r |->
                    IF f = "coins" THEN r.coins + income
                    ELSE IF f \in Goods THEN 0 ELSE r[f]]]
  /\ GoodsHeld(state) = [NoStock EXCEPT !.tomato = 10, !.milk = 2] =>
       sold.resources.coins = r.coins + 62

\* C29 witness: the account with 100 coins, 10 tomatoes and 2 milk has sold
C29_Witness ==
  /\ state.resources.coins = 162
  /\ GoodsHeld(state) = NoStock
  /\ state.resources.feed = 5
  /\ Rev(state) = 1

-----------------------------------------------------------------------------
(* C30 *)

\* C30: buying feed with coins >= 20 gives coins - 20 and feed + 5; the
\* gems-to-coins exchange with gems >= 10 gives gems - 10 and coins + 100; the
\* coins-to-gems exchange with coins >= 100000 gives coins - 100000 and
\* gems + 10000; every other resource and every slot is as before, and below
\* the threshold the state is unchanged.
C30_Swaps ==
  LET r == state.resources IN
  /\ buyFeed(state) =
       IF r.coins >= 20
       THEN [state EXCEPT !.resources.coins = @ - 20, !.resources.feed = @ + 5]
       ELSE state
  /\ exchangeGemsToCoins(state) =
       IF r.gems >= 10
       THEN [state EXCEPT !.resources.gems = @ - 10, !.resources.coins = @ + 100]
       ELSE state
  /\ exchangeCoinsToGems(state) =
       IF r.coins >= 100000
       THEN [state EXCEPT !.resources.coins = @ - 100000,
                          !.resources.gems = @ + 10000]
       ELSE state

\* C30 witness: 100000 coins and 10 gems became 80 coins, 10000 gems and two
\* packs of feed by one swap of each kind
C30_Witness ==
  /\ state.resources.coins = 80
  /\ state.resources.gems = 10000
  /\ state.resources.feed = 10
  /\ GoodsHeld(state) = NoStock
  /\ Rev(state) = 1

-----------------------------------------------------------------------------
(* C31 *)

\* the debounce timer armed by the last action of a burst runs in this step
DebounceRuns == syncTimeout /\ ~syncTimeout'

\* the step issues a debounce-triggered write of the latest snapshot
DebounceWrites ==
  \E m \in net' \ net :
    /\ m.kind = "syncFarm" /\ m.src = "debounce" /\ m.phase = "req"
    /\ m.snap = latestStateRef

\* the latest snapshot is already held by the store or on its way to it
LatestOnItsWay ==
  \/ server.snap = latestStateRef
  \/ \E m \in net : m.kind = "syncFarm" /\ m.phase = "req" /\ m.snap = latestStateRef

\* C31: a burst of local actions, each within the debounce window of the
\* previous one, produces one debounce-triggered write, issued after the last
\* action and carrying the state that results from all of them: when the
\* debounce timer runs and the latest snapshot is neither stored nor on its
\* way, the write of the latest snapshot is issued.
C31_BurstWritten ==
  [][(DebounceRuns /\ ~LatestOnItsWay) => DebounceWrites]_vars

-----------------------------------------------------------------------------
(* The boost and its price tag: the first bed and the cow hold any of a set  *)
(* of timers, the clock stands at one of several instants, and the player    *)
(* asks for boosts.                                                          *)

TimerCases ==
  {null} \cup
  { [startedAt |-> st, durationMs |-> d] :
      st \in {0, 60000},
      d \in {0, 1, 59999, 60000, 60001, 90000, 180000, 300000} }

BoostClocks == {0, 1, 60000, 120000, 300000}

BoostGems == {0, 1, 3, 5}

BoostStates ==
  { [createInitialState EXCEPT
       !.resources.gems = g, !.crops[1].timer = tc, !.animals[1].timer = ta] :
      g \in BoostGems, tc \in TimerCases, ta \in TimerCases }

InitBoost ==
  /\ state \in BoostStates
  /\ latestStateRef = state
  /\ dirty = FALSE
  /\ syncTimeout = FALSE
  /\ now \in BoostClocks
  /\ net = {}
  /\ server = NoServer
  /\ localSeq = 0

NextBoost ==
  \/ \E id \in {"c1", "c2", UnknownId} : StepsLeft(MaxBoostSteps) /\ handleBoostCrop(id)
  \/ \E id \in {"a1", "a2", UnknownId} : StepsLeft(MaxBoostSteps) /\ handleBoostAnimal(id)

SpecBoost == InitBoost /\ [][NextBoost]_vars

-----------------------------------------------------------------------------
(* C32 *)

\* C32: getBoostCost(timer) is 0 exactly when the timer is absent or already
\* ready, and otherwise equals the number of gems that boostCrop / boostAnimal
\* computes and, when the gems suffice, debits for a slot holding that timer
\* at the same instant.
C32_BoostCostAgrees ==
  /\ \A slot \in Slots(state) :
       LET q == getBoostCost(slot.timer, now) IN
       /\ q = 0 <=> (~Busy(slot) \/ Ready(slot))
       /\ Running(slot) => q = BoostPriceOf(slot)
  /\ \A j \in DOMAIN state.crops :
       LET slot == state.crops[j]
           q == getBoostCost(slot.timer, now)
           b == boostCrop(state, slot.id, now)
       IN /\ (q > 0 /\ state.resources.gems >= q) =>
               b.resources.gems = state.resources.gems - q
          /\ (q = 0 \/ state.resources.gems < q) => b = state
  /\ \A j \in DOMAIN state.animals :
       LET slot == state.animals[j]
           q == getBoostCost(slot.timer, now)
           b == boostAnimal(state, slot.id, now)
       IN /\ (q > 0 /\ state.resources.gems >= q) =>
               b.resources.gems = state.resources.gems - q
          /\ (q = 0 \/ state.resources.gems < q) => b = state

\* C32 witness: a five-minute timer two minutes in was priced 3 and boosted
\* for 3 of the 5 gems; the query now answers 0
C32_Witness ==
  /\ now = 120000
  /\ state.crops[1].timer = [startedAt |-> 120000 - 300000, durationMs |-> 300000]
  /\ state.resources.gems = 2
  /\ getBoostCost(state.crops[1].timer, now) = 0
  /\ Rev(state) = 1

-----------------------------------------------------------------------------
(* C33 *)

\* the same game as installed by a pull that named a referrer
Referred(s) == [referrerId |-> "r1", referrerUsername |-> "ann"] @@ s

\* an account that can pay for every action
WealthyState ==
  [createInitialState EXCEPT !.resources.coins = 100000, !.resources.gems = 95]

FrameStates ==
  {createInitialState, WealthyState, Referred(VeteranState), Referred(SeasonedState)}

InitFrame ==
  /\ state \in FrameStates
  /\ latestStateRef = state
  /\ dirty = FALSE
  /\ syncTimeout = FALSE
  /\ now = 0
  /\ net = {}
  /\ server = NoServer
  /\ localSeq = 0

NextFrame ==
  \/ \E id \in CropIds \cup {UnknownId} :
       \/ StepsLeft(MaxFrameSteps) /\ handlePlant(id)
       \/ StepsLeft(MaxFrameSteps) /\ handleHarvestCrop(id)
       \/ StepsLeft(MaxFrameSteps) /\ handleBoostCrop(id)
       \/ StepsLeft(MaxFrameSteps) /\ handleUpgradeCrop(id)
       \/ StepsLeft(MaxFrameSteps) /\ handleUnlockCrop(id)
       \/ StepsLeft(MaxFrameSteps) /\ handleGemUpgradeCrop(id)
  \/ \E id \in AnimalIds \cup {UnknownId} :
       \/ StepsLeft(MaxFrameSteps) /\ handleFeed(id)
       \/ StepsLeft(MaxFrameSteps) /\ handleCollectProduct(id)
       \/ StepsLeft(MaxFrameSteps) /\ handleBoostAnimal(id)
       \/ StepsLeft(MaxFrameSteps) /\ handleUpgradeAnimal(id)
       \/ StepsLeft(MaxFrameSteps) /\ handleUnlockAnimal(id)
       \/ StepsLeft(MaxFrameSteps) /\ handleGemUpgradeAnimal(id)
  \/ Tick

SpecFrame == InitFrame /\ [][NextFrame]_vars

\* what the slot-targeted updaters make of s for the given id
SlotActionResults(s, id) ==
  { plantCrop(s, id, now), harvestCrop(s, id, now), boostCrop(s, id, now),
    upgradeCrop(s, id), gemUpgradeCrop(s, id), unlockCrop(s, id),
    feedAnimal(s, id, now), collectAnimalProduct(s, id, now),
    boostAnimal(s, id, now), upgradeAnimal(s, id), gemUpgradeAnimal(s, id),
    unlockAnimal(s, id) }

SameIdentity(a, b) == a.id = b.id /\ a.type = b.type /\ a.baseYield = b.baseYield

CollectionFramed(before, after, id) ==
  /\ Len(after) = Len(before)
  /\ \A j \in DOMAIN before :
       /\ SameIdentity(before[j], after[j])
       /\ before[j].id # id => after[j] = before[j]

Framed(s, r, id) ==
  /\ OtherFields(r) = OtherFields(s)
  /\ \A f \in OtherFields(s) \ {"revision"} : r[f] = s[f]
  /\ CollectionFramed(s.crops, r.crops, id)
  /\ CollectionFramed(s.animals, r.animals, id)

\* C33: every slot-targeted action (plant/feed, harvest/collect, boost,
\* upgrade, gem-upgrade, unlock) changes at most the one slot whose id was
\* given; all other slots of both collections, the player level and the
\* referrer fields are unchanged, the order and ids of the slots are
\* unchanged, and the id, type and baseYield of the targeted slot never change.
C33_SlotActionFrame ==
  \A id \in AllIds :
    \A r \in SlotActionResults(state, id) : Framed(state, r, id)

\* C33 witness: on the referred account the first bed was planted and the cow
\* fed; nothing else about its slots, its level or its referrer has changed
C33_Witness ==
  LET init == Referred(SeasonedState) IN
  /\ "referrerId" \in DOMAIN state
  /\ state.referrerId = init.referrerId
  /\ state.referrerUsername = init.referrerUsername
  /\ state.crops[1].timer # null
  /\ state.animals[1].timer # null
  /\ state.crops = [init.crops EXCEPT ![1].timer = state.crops[1].timer]
  /\ state.animals = [init.animals EXCEPT ![1].timer = state.animals[1].timer]
  /\ state.level = init.level
  /\ Rev(state) = 2

-----------------------------------------------------------------------------
(* C34 *)

\* getMe requests of forceRefreshFromServer that the step issues
ForcePullsIssued ==
  {m \in net' \ net : m.kind = "getMe" /\ m.src = "force" /\ m.phase = "req"}

\* syncFarm requests of forceRefreshFromServer that the step issues
ForceWritesIssued ==
  {m \in net' \ net : m.kind = "syncFarm" /\ m.src = "force" /\ m.phase = "req"}

\* writes of forceRefreshFromServer whose completion the step handles
ForceWritesCompleted ==
  {m \in net \ net' : m.kind = "syncFarm" /\ m.src = "force" /\ m.phase # "req"}

\* C34: forceRefreshFromServer pushes before it pulls: called with dirty set
\* it issues the write of the local snapshot and no pull, and its pull is
\* issued only by the step that handles the completion of that write; called
\* with dirty clear it issues the pull at once and no write.
C34_PushBeforePull ==
  [][/\ ForceWritesIssued # {} => (dirty /\ ForcePullsIssued = {})
     /\ ForcePullsIssued # {} =>
          \/ ForceWritesCompleted # {}
          \/ ~dirty /\ ForceWritesIssued = {}]_vars

\* C34 witness: the refresh found the flag set, its write of the one local
\* action has been stored and completed (the debounce timer has not run yet),
\* and only now its pull is on the way
C34_Witness ==
  /\ syncTimeout
  /\ ~dirty
  /\ localSeq = 1
  /\ server.seq = 1
  /\ PullReq("force") \in net

-----------------------------------------------------------------------------
(* C35 *)

\* where a slot is in its cycle when the clock shows t
PhaseAt(slot, t) ==
  IF slot.timer = null THEN "idle"
  ELSE IF t - slot.timer.startedAt >= slot.timer.durationMs THEN "ready"
  ELSE "busy"

\* what a step may do to the timer of one slot: a and b are the slot before
\* and after the step
LifecycleStep(a, b) ==
  /\ <<PhaseAt(a, now), PhaseAt(b, now')>> \in
       { <<"idle", "idle">>, <<"idle", "busy">>,
         <<"busy", "busy">>, <<"busy", "ready">>,
         <<"ready", "ready">>, <<"ready", "idle">> }
  /\ (a.timer # null /\ b.timer # null) =>
       /\ b.timer.durationMs = a.timer.durationMs
       /\ b.timer.startedAt # a.timer.startedAt =>
            /\ PhaseAt(a, now) = "busy"
            /\ b.timer.startedAt = now - a.timer.durationMs
            /\ state'.resources.gems = state.resources.gems - BoostPriceOf(a)
  /\ (PhaseAt(a, now) = "busy" /\ PhaseAt(b, now') = "ready") =>
       \/ b.timer = a.timer /\ now' > now
       \/ b.timer.startedAt # a.timer.startedAt

\* plant/feed and boost leave the game alone when addressed to a ready slot
ReadyRefuses ==
  /\ \A c \in {state.crops[j] : j \in DOMAIN state.crops} :
       Ready(c) => /\ SameGame(plantCrop(state, c.id, now), state)
                   /\ SameGame(boostCrop(state, c.id, now), state)
  /\ \A a \in {state.animals[j] : j \in DOMAIN state.animals} :
       Ready(a) => /\ SameGame(feedAnimal(state, a.id, now), state)
                   /\ SameGame(boostAnimal(state, a.id, now), state)

\* C35: each slot moves only idle -> busy (successful plant/feed) -> ready
\* (the clock reaches startedAt + durationMs, or a paid boost) -> idle
\* (successful harvest/collect); durationMs of a present timer never changes,
\* only a boost changes startedAt, and while the clock does not go back a
\* ready timer stays ready until the slot is harvested (plant and boost on a
\* ready slot are no-ops).
C35_TimerLifecycle ==
  [][/\ now' >= now
     /\ \A j \in DOMAIN state.crops : LifecycleStep(state.crops[j], state'.crops[j])
     /\ \A j \in DOMAIN state.animals :
          LifecycleStep(state.animals[j], state'.animals[j])
     /\ ReadyRefuses]_vars

\* C35 witness: the cow was fed, boosted for gems and milked, all at the same
\* instant, and is idle again
C35_Witness ==
  /\ now = 0
  /\ state.animals[1].timer = null
  /\ state.resources.milk >= 1
  /\ state.resources.feed = 4
  /\ Rev(state) = 3

-----------------------------------------------------------------------------
(* C36 *)

\* the step is one of the two exchanges, which call setState themselves
ExchangeStep ==
  /\ state' # state
  /\ state' \in {exchangeGemsToCoins(state), exchangeCoinsToGems(state)}

\* the step is a dispatch through applyStateUpdate
Dispatched == localSeq' = localSeq + 1 /\ ~ExchangeStep

\* C36: every dispatch through applyStateUpdate increments revision by
\* exactly 1 and sets the dirty flag, also when the updater rejected the
\* action and returned its argument; the game state after such a dispatch
\* differs from the state before only in revision.
C36_DispatchCountsAlways ==
  [][Dispatched =>
       /\ Rev(state') = Rev(state) + 1
       /\ dirty'
       /\ latestStateRef' = state'
       /\ SameGame(state', state) =>
            state' = [revision |-> Rev(state) + 1] @@ state]_vars

\* C36 witness: one request was rejected on the fresh account (nothing to
\* harvest, say): the game is the template's, the revision is 1 and the flag
\* is set
C36_Witness ==
  /\ state = [revision |-> 1] @@ createInitialState
  /\ dirty
  /\ syncTimeout
  /\ localSeq = 1

-----------------------------------------------------------------------------
(* The daily reward.  claimDailyReward posts the user id only; the backend  *)
(* credits the reward to the balances it holds and answers with the reward  *)
(* and the resulting balances; handleDailyClaim installs those balances.    *)

Balances == {"coins", "gems", "feed"}

DailyRewards == {[coins |-> 50, gems |-> 1, feed |-> 2]}

DailyReq == [kind |-> "daily", src |-> "daily", phase |-> "req", snap |-> null, seq |-> 0]

\* handleDailyClaim up to its await: the request carries nothing of the state
handleDailyClaim ==
  /\ Send(DailyReq)
  /\ UNCHANGED <<state, latestStateRef, dirty, syncTimeout, now, server, localSeq>>

\* the backend issues the reward once a day
DailyServed(m) ==
  /\ m \in net
  /\ m.kind = "daily"
  /\ m.phase = "req"
  /\ IF server.claimed
     THEN /\ net' = (net \ {m}) \cup {[m EXCEPT !.phase = "ok", !.snap = [claimed |-> FALSE]]}
          /\ UNCHANGED server
     ELSE \E reward \in DailyRewards :
            LET held == server.snap.resources
                resources == [f \in Balances |-> held[f] + reward[f]]
            IN /\ server' = [server EXCEPT !.claimed = TRUE,
                                           !.snap.resources = resources @@ held]
               /\ net' = (net \ {m}) \cup
                           {[m EXCEPT !.phase = "ok",
                                      !.snap = [claimed |-> TRUE, reward |-> reward,
                                                resources |-> resources]]}
  /\ UNCHANGED <<state, latestStateRef, dirty, syncTimeout, now, localSeq>>

DailyFailed(m) ==
  /\ m \in net
  /\ m.kind = "daily"
  /\ m.phase = "req"
  /\ net' = (net \ {m}) \cup {[m EXCEPT !.phase = "fail"]}
  /\ UNCHANGED <<state, latestStateRef, dirty, syncTimeout, now, server, localSeq>>

\* handleDailyClaim after its await: a claimed result goes through
\* applyStateUpdate with { ...prev, resources: { ...prev.resources,
\* ...result.resources } }; a failed request or a refusal changes no state
DailyClaimResolved(m) ==
  /\ m \in net
  /\ m.kind = "daily"
  /\ m.phase \in {"ok", "fail"}
  /\ net' = net \ {m}
  /\ IF m.phase = "ok" /\ m.snap.claimed
     THEN LET updated == [state EXCEPT !.resources = m.snap.resources @@ @]
              next == [revision |-> Rev(state) + 1] @@ updated
          IN /\ state' = next
             /\ dirty' = TRUE
             /\ latestStateRef' = next
             /\ syncTimeout' = TRUE
             /\ localSeq' = localSeq + 1
     ELSE UNCHANGED <<state, latestStateRef, dirty, syncTimeout, localSeq>>
  /\ UNCHANGED <<now, server>>

\* the account has been loaded; the reward of the day has not been claimed
InitDaily ==
  /\ state \in StartStates
  /\ latestStateRef = state
  /\ dirty = FALSE
  /\ syncTimeout = FALSE
  /\ now = 0
  /\ net = {}
  /\ server = [snap |-> state, seq |-> 0, claimed |-> FALSE]
  /\ localSeq = 0

NextDaily ==
  \/ StepsLeft(MaxDailySteps) /\ handleBuyFeed
  \/ StepsLeft(MaxDailySteps) /\ handleExchangeGemsToCoins
  \/ handleDailyClaim
  \/ DebounceFire
  \/ \E m \in net : m.kind = "syncFarm" /\ ServerOk(m)
  \/ \E m \in net : m.kind = "syncFarm" /\ ServerFail(m)
  \/ \E m \in net : SyncFarmResolved(m)
  \/ \E m \in net : DailyServed(m)
  \/ \E m \in net : DailyFailed(m)
  \/ \E m \in net : DailyClaimResolved(m)

SpecDaily == InitDaily /\ [][NextDaily]_vars

-----------------------------------------------------------------------------
(* C39 *)

\* claimed daily-reward answers that the step applies
RewardsApplied ==
  {m \in net \ net' : m.kind = "daily" /\ m.phase = "ok" /\ m.snap.claimed}

\* C39: applying a successful daily-reward response changes the local coins,
\* gems and feed by exactly the reward amounts relative to their local values
\* before, also when local actions since the last successful write have
\* changed those balances.
C39_RewardAddsToLocal ==
  [][\A m \in RewardsApplied :
       \A f \in Balances :
         state'.resources[f] = state.resources[f] + m.snap.reward[f]]_vars

-----------------------------------------------------------------------------
(* The held state under loads, pulls and local actions: the remote store or *)
(* the local storage holds a value of an older or damaged shape.            *)

\* stored values without resources (the template's are taken): collections
\* absent, or damaged (entries that are no slots, a slot of an unknown id, a
\* duplicated id, a slot of another type than the template's), with a level
\* and without
StoredValues ==
  {s \in RawStates :
     /\ "resources" \notin DOMAIN s
     /\ ("crops" \in DOMAIN s) = ("animals" \in DOMAIN s)
     /\ "crops" \in DOMAIN s => Len(s.crops) = 4 /\ Len(s.animals) = 4
     /\ "revision" \in DOMAIN s => "referrerId" \notin DOMAIN s
     /\ \/ "revision" \in DOMAIN s
        \/ "level" \notin DOMAIN s /\ "crops" \in DOMAIN s}

\* the initial load effect without a backend:
\* setState(ensureExtendedState(JSON.parse(raw)))
LoadStored ==
  /\ state = createInitialState
  /\ \E raw \in StoredValues :
       /\ state' = ensureExtendedState(raw)
       /\ latestStateRef' = ensureExtendedState(raw)
  /\ UNCHANGED <<dirty, syncTimeout, now, net, server, localSeq>>

InitSchema ==
  /\ state = createInitialState
  /\ latestStateRef = state
  /\ dirty = FALSE
  /\ syncTimeout = FALSE
  /\ now = 0
  /\ net = {}
  /\ server \in {[snap |-> s, seq |-> 0] : s \in StoredValues}
  /\ localSeq = 0

\* one fetch at a time in these runs
NextSchema ==
  \/ \E id \in {"c1", "c6"} :
       \/ StepsLeft(MaxSchemaSteps) /\ handlePlant(id)
       \/ StepsLeft(MaxSchemaSteps) /\ handleHarvestCrop(id)
       \/ StepsLeft(MaxSchemaSteps) /\ handleBoostCrop(id)
       \/ StepsLeft(MaxSchemaSteps) /\ handleUpgradeCrop(id)
       \/ StepsLeft(MaxSchemaSteps) /\ handleGemUpgradeCrop(id)
  \/ \E id \in {"a2", "a3"} :
       \/ StepsLeft(MaxSchemaSteps) /\ handleFeed(id)
       \/ StepsLeft(MaxSchemaSteps) /\ handleUpgradeAnimal(id)
  \/ StepsLeft(MaxSchemaSteps) /\ handleBuyFeed
  \/ LoadStored
  \/ net = {} /\ syncGameState
  \/ net = {} /\ DebounceFire
  \/ \E m \in net : ServerOk(m)
  \/ \E m \in net : SyncFarmResolved(m)
  \/ \E m \in net : GetMeResolved(m)

SpecSchema == InitSchema /\ [][NextSchema]_vars

-----------------------------------------------------------------------------
(* C37 *)

IdsOf(coll) == [j \in DOMAIN coll |-> coll[j].id]

\* C37: after any sequence of local actions, remote pulls and loads from
\* local storage the held state has exactly 6 crop slots with ids c1..c6 and
\* 6 animal slots with ids a1..a6, each id once and in template order.
C37_SchemaHeld ==
  /\ IdsOf(state.crops) = <<"c1", "c2", "c3", "c4", "c5", "c6">>
  /\ IdsOf(state.animals) = <<"a1", "a2", "a3", "a4", "a5", "a6">>
  /\ IdsOf(latestStateRef.crops) = IdsOf(state.crops)
  /\ IdsOf(latestStateRef.animals) = IdsOf(state.animals)

\* C37 witness: a stored value with a slot of an unknown id, a duplicated c1
\* and a decorated c6 was installed, and a local action has followed
C37_Witness ==
  /\ "skin" \in DOMAIN state.crops[6]
  /\ state.crops[6].type = "corn"
  /\ state.animals[2].level = 3
  /\ dirty
  /\ localSeq = 1

-----------------------------------------------------------------------------
(* C38 *)

\* slot b is slot a no further back: level, gem level and the unlocked flag
NotBehind(a, b) ==
  /\ b.level >= a.level
  /\ Get(b, "gemUpgradeLevel", 0) >= Get(a, "gemUpgradeLevel", 0)
  /\ Get(a, "unlocked", FALSE) => Get(b, "unlocked", FALSE)

ProgressKept ==
  /\ \A j \in DOMAIN state.crops : NotBehind(state.crops[j], state'.crops[j])
  /\ \A j \in DOMAIN state.animals : NotBehind(state.animals[j], state'.animals[j])

\* C38: under the local actions every slot's level is at least 1 and never
\* decreases, its gemUpgradeLevel never decreases, and its unlocked flag
\* never goes from true to false.
C38_ProgressMonotone ==
  /\ [](\A slot \in Slots(state) : slot.level >= 1)
  /\ [][ProgressKept]_vars

\* C38 witness: the goat was unlocked, raised a gem level and then a level
C38_Witness ==
  /\ state.animals[3].unlocked
  /\ state.animals[3].gemUpgradeLevel = 1
  /\ state.animals[3].level = 2
  /\ Rev(state) = 3

====
